---- MODULE Spec2Model ----
(***************************************************************************)
(* A model of reglang2msl: the knowledge-base interpreter                  *)
(* (knowledge_base_translator.py), the rule transformer and translator     *)
(* (rule_translator.py), the MSL serializer (utils.py) and the code        *)
(* generator (translator.py).                                              *)
(*                                                                         *)
(* Python strings that the program inspects character by character (token  *)
(* values, knowledge strings) are sequences of one-character strings;      *)
(* emitted text is a TLA+ string.  Python lists are objects of a heap, so  *)
(* that two names bound to one list see each other's updates.              *)
(***************************************************************************)
EXTENDS Integers, Sequences, FiniteSets, TLC

VARIABLES
    kb_dict_collection, \* KnowledgeBaseInterpreter.kb_dict_collection
    kb_dict,            \* the kb_dict local of knowledgebase_block
    kb_name,            \* the kb_name local of knowledgebase_block
    heap,               \* the Python list objects, by identity
    kpc,                \* where the interpreter is: idle, start, block, raised
    kb_result,          \* the map the last completed start() returned
    n_entries,          \* entries interpreted so far (bounds the model)
    n_runs,             \* calls of start() so far (bounds the model)
    last,               \* what the last knowledge entry did (history)
    run_names,          \* the knowledge bases declared so far in this run (history)
    gen_kb,             \* the knowledge base blocks of the program given to generate()
    const_def,          \* the const_def local of generate()
    kb_placed,          \* knowledge base blocks the transformer has passed
    rl_rules,           \* the rule blocks the transformer has passed (history)
    blocks,             \* the transformed children that start() is called with
    template_info,      \* RuleTransitionBuilder.template_info
    msl_ast,            \* the tree transform() returned
    rpc,                \* where generate() is: idle, transform, started, done, raised
    gen_out,            \* what generate() returned or raised
    n_blocks,           \* rule blocks transformed so far (bounds the model)
    n_gens,             \* calls of generate() so far (bounds the model)
    fn_pc,              \* a single call of one method: idle, ready, done
    fn_in,              \* the argument of the call
    fn_out              \* what the call returned or raised

kbvars == <<kb_dict_collection, kb_dict, kb_name, heap, kpc, kb_result,
            n_entries, n_runs, last, run_names>>

rvars == <<gen_kb, const_def, kb_placed, rl_rules, blocks, template_info, msl_ast,
           rpc, gen_out, n_blocks, n_gens>>

fvars == <<fn_pc, fn_in, fn_out>>

vars == <<kbvars, rvars, fvars>>

----------------------------------------------------------------------------
\* Bounds of the model

MaxInt == 2
MaxLen == 2
MaxEntries == 2
MaxRuns == 2
MaxBlocks == 2
MaxChecks == 2
MaxGens == 2
MaxOperand == 3
MaxSharedEntries == 3

----------------------------------------------------------------------------
\* Characters and strings

DigitChars == <<"0", "1", "2", "3", "4", "5", "6", "7", "8", "9">>

UpperChars == <<"A", "B", "C", "D", "E", "F">>

LowerChars == <<"a", "b", "c", "d", "e", "f">>

\* str(int) of Python
RECURSIVE IntToStr(_)
IntToStr(n) ==
    IF n < 0 THEN <<"-">> \o IntToStr(-n)
    ELSE IF n < 10 THEN <<DigitChars[n + 1]>>
    ELSE IntToStr(n \div 10) \o <<DigitChars[(n % 10) + 1]>>

IsDigit(c) == \E d \in 1..10 : DigitChars[d] = c

DigitVal(c) == (CHOOSE d \in 1..10 : DigitChars[d] = c) - 1

\* int(str) of Python on a run of decimal digits
RECURSIVE ParseDec(_)
ParseDec(cs) ==
    IF cs = <<>> THEN 0
    ELSE ParseDec(SubSeq(cs, 1, Len(cs) - 1)) * 10 + DigitVal(cs[Len(cs)])

\* str.lower() of Python, one character
LowerChar(c) ==
    IF \E u \in 1..Len(UpperChars) : UpperChars[u] = c
    THEN LowerChars[CHOOSE u \in 1..Len(UpperChars) : UpperChars[u] = c]
    ELSE c

StrLower(cs) == [p \in 1..Len(cs) |-> LowerChar(cs[p])]

\* the characters of a string joined into text
RECURSIVE Flat(_)
Flat(cs) == IF cs = <<>> THEN "" ELSE Head(cs) \o Flat(Tail(cs))

Quote(cs) == <<"\"">> \o cs \o <<"\"">>

----------------------------------------------------------------------------
\* Lark trees and tokens

Tok(type, value) == [data |-> "Token", type |-> type, value |-> value, children |-> <<>>]

Tree(data, children) == [data |-> data, type |-> "", value |-> <<>>, children |-> children]

IsToken(t) == t.data = "Token"

----------------------------------------------------------------------------
\* Knowledge values (KnowledgeType): an int, a str, or a reference to a list
\* object of the heap; list elements are ints or strs

IntE(n) == [kind |-> "int", i |-> n, s |-> <<>>]

StrE(cs) == [kind |-> "str", i |-> 0, s |-> cs]

IntV(n) == [kind |-> "int", i |-> n, s |-> <<>>, ref |-> 0]

StrV(cs) == [kind |-> "str", i |-> 0, s |-> cs, ref |-> 0]

ListV(r) == [kind |-> "list", i |-> 0, s |-> <<>>, ref |-> r]

\* str(x) of Python on a list element
PyStr(e) == IF e.kind = "int" THEN StrE(IntToStr(e.i)) ELSE e

\* Python dicts keep insertion order: a dict is a sequence of key/value pairs
DictHas(d, k) == \E p \in 1..Len(d) : d[p].k = k

DictGet(d, k) == d[CHOOSE p \in 1..Len(d) : d[p].k = k].v

\* dict.update({k: v})
DictUpdate(d, k, v) ==
    IF DictHas(d, k)
    THEN [p \in 1..Len(d) |-> IF d[p].k = k THEN [k |-> k, v |-> v] ELSE d[p]]
    ELSE Append(d, [k |-> k, v |-> v])

DictKeys(d) == {d[p].k : p \in 1..Len(d)}

----------------------------------------------------------------------------
\* The inputs: names and knowledge definitions of the RL programs

KBNames == {<<"k", "1">>, <<"k", "2">>}

ItemNames == {<<"a">>, <<"b">>}

StrLits == {IntToStr(n) : n \in 1..MaxInt}

SeqsUpTo(S, n) == UNION {[1..m -> S] : m \in 1..n}

NumberTokens == {Tok("NUMBER", IntToStr(n)) : n \in 1..MaxInt}

StringTokens == {Tok("STRING", Quote(cs)) : cs \in StrLits}

NumberExprs == {Tree("number", <<t>>) : t \in NumberTokens}

StringExprs == {Tree("string", <<t>>) : t \in StringTokens}

\* arrays are homogeneous and not empty (the grammar's array rule)
ArrayExprs ==
    {Tree("array", ts) : ts \in SeqsUpTo(NumberTokens, MaxLen) \cup SeqsUpTo(StringTokens, MaxLen)}

RefExprs ==
    {Tree("knowledge_ref", <<Tok("NAME", kb), Tok("NAME", k)>>) : kb \in KBNames, k \in ItemNames}

KnowledgeExprs == NumberExprs \cup StringExprs \cup ArrayExprs \cup RefExprs

----------------------------------------------------------------------------
\* KnowledgeBaseInterpreter: the rules that evaluate a knowledge definition.
\* The result of a visit: err is the exception raised ("" when none), val
\* the value; a list the visit has just built is not yet in the heap, fresh
\* says so and items holds its elements.

EvalRes(err, val, fresh, items) == [err |-> err, val |-> val, fresh |-> fresh, items |-> items]

number(tree) == EvalRes("", IntV(ParseDec(tree.children[1].value)), FALSE, <<>>)

\* token.lower()[1:-1]
StripQuotes(cs) == SubSeq(StrLower(cs), 2, Len(cs) - 1)

string(tree) == EvalRes("", StrV(StripQuotes(tree.children[1].value)), FALSE, <<>>)

array(tree) ==
    LET ch == tree.children
    IN  IF ch[1].type = "NUMBER"
        THEN EvalRes("", ListV(0), TRUE, [p \in 1..Len(ch) |-> IntE(ParseDec(ch[p].value))])
        ELSE IF ch[1].type = "STRING"
        THEN EvalRes("", ListV(0), TRUE, [p \in 1..Len(ch) |-> StrE(StripQuotes(ch[p].value))])
        ELSE EvalRes("InterpretationError", IntV(0), FALSE, <<>>)

knowledge_ref(tree, collection) ==
    LET kb == tree.children[1].value
        k == tree.children[2].value
    IN  IF ~DictHas(collection, kb)
        THEN EvalRes("InterpretationError", IntV(0), FALSE, <<>>)
        ELSE IF ~DictHas(DictGet(collection, kb), k)
        THEN EvalRes("InterpretationError", IntV(0), FALSE, <<>>)
        ELSE EvalRes("", DictGet(DictGet(collection, kb), k), FALSE, <<>>)

\* Interpreter.visit on a knowledge definition
Visit(tree, collection) ==
    CASE tree.data = "number" -> number(tree)
      [] tree.data = "string" -> string(tree)
      [] tree.data = "array" -> array(tree)
      [] tree.data = "knowledge_ref" -> knowledge_ref(tree, collection)

----------------------------------------------------------------------------
\* Arithmetic in knowledge definitions: string2int, term, factor, power,
\* length, array_item

HexVal(c) ==
    IF IsDigit(c) THEN DigitVal(c)
    ELSE IF \E u \in 1..Len(LowerChars) : LowerChars[u] = c
    THEN 9 + (CHOOSE u \in 1..Len(LowerChars) : LowerChars[u] = c)
    ELSE 9 + (CHOOSE u \in 1..Len(UpperChars) : UpperChars[u] = c)

\* c in string.hexdigits
IsHexDigit(c) ==
    \/ IsDigit(c)
    \/ \E u \in 1..Len(LowerChars) : LowerChars[u] = c
    \/ \E u \in 1..Len(UpperChars) : UpperChars[u] = c

\* int(str, base=16) of Python on a run of hexadecimal digits
RECURSIVE ParseHex(_)
ParseHex(cs) ==
    IF cs = <<>> THEN 0
    ELSE ParseHex(SubSeq(cs, 1, Len(cs) - 1)) * 16 + HexVal(cs[Len(cs)])

\* the result of a conversion to int: err the exception raised, none says the
\* result is None, n the integer
IntRes(err, none, n) == [err |-> err, none |-> none, n |-> n]

string2int(val) ==
    IF Len(val) >= 2 /\ val[1] = "0" /\ val[2] = "x"
       /\ \A p \in 3..Len(val) : IsHexDigit(val[p])
    THEN IF Len(val) = 2 THEN IntRes("ValueError", FALSE, 0)
         ELSE IntRes("", FALSE, ParseHex(SubSeq(val, 3, Len(val))))
    ELSE IF val # <<>> /\ \A p \in 1..Len(val) : IsDigit(val[p])
    THEN IntRes("", FALSE, ParseDec(val))
    ELSE IntRes("", TRUE, 0)

\* string2int(x) if isinstance(x, str) else int(x)
ToInt(v) ==
    IF v.kind = "str" THEN string2int(v.s)
    ELSE IF v.kind = "int" THEN IntRes("", FALSE, v.i)
    ELSE IntRes("TypeError", FALSE, 0)

Abs(n) == IF n < 0 THEN -n ELSE n

\* int(a / b) of Python
TruncDiv(a, b) ==
    IF (a >= 0) = (b > 0) THEN Abs(a) \div Abs(b) ELSE -(Abs(a) \div Abs(b))

\* a % b of Python
PyMod(a, b) == IF b > 0 THEN a % b ELSE -((-a) % (-b))

RECURSIVE NatPow(_, _)
NatPow(a, b) == IF b = 0 THEN 1 ELSE a * NatPow(a, b - 1)

\* the two operands of term, factor and power are converted before either
\* is tested for None
Operands(l, r) ==
    LET lv == ToInt(l.val)
        rv == ToInt(r.val)
    IN  IF l.err # "" THEN [err |-> l.err, l |-> 0, r |-> 0]
        ELSE IF r.err # "" THEN [err |-> r.err, l |-> 0, r |-> 0]
        ELSE IF lv.err # "" THEN [err |-> lv.err, l |-> 0, r |-> 0]
        ELSE IF rv.err # "" THEN [err |-> rv.err, l |-> 0, r |-> 0]
        ELSE IF lv.none \/ rv.none THEN [err |-> "InterpretationError", l |-> 0, r |-> 0]
        ELSE [err |-> "", l |-> lv.n, r |-> rv.n]

IntResult(err, n) == EvalRes(err, IntV(n), FALSE, <<>>)

term(operator, l, r) ==
    LET o == Operands(l, r)
    IN  IF o.err # "" THEN IntResult(o.err, 0)
        ELSE IntResult("", IF operator = <<"+">> THEN o.l + o.r ELSE o.l - o.r)

factor(operator, l, r) ==
    LET o == Operands(l, r)
    IN  IF o.err # "" THEN IntResult(o.err, 0)
        ELSE IF operator = <<"*">> THEN IntResult("", o.l * o.r)
        ELSE IF o.r = 0 THEN IntResult("ZeroDivisionError", 0)
        ELSE IF operator = <<"/">> THEN IntResult("", TruncDiv(o.l, o.r))
        ELSE IntResult("", PyMod(o.l, o.r))

power(l, r) ==
    LET o == Operands(l, r)
    IN  IF o.err # "" THEN IntResult(o.err, 0)
        ELSE IF o.r >= 0 THEN IntResult("", NatPow(o.l, o.r))
        ELSE IF o.l = 0 THEN IntResult("ZeroDivisionError", 0)
        ELSE IF o.l = 1 THEN IntResult("", 1)
        ELSE IF o.l = -1 THEN IntResult("", IF (-o.r) % 2 = 0 THEN 1 ELSE -1)
        ELSE IntResult("", 0)

\* the elements of an evaluated array
ItemsOf(a, h) == IF a.fresh THEN a.items ELSE h[a.val.ref]

length(a, h) ==
    IF a.err # "" THEN IntResult(a.err, 0)
    ELSE IF a.val.kind # "list" THEN IntResult("InterpretationError", 0)
    ELSE IntResult("", Len(ItemsOf(a, h)))

array_item(a, index, h) ==
    LET iv == ToInt(index.val)
    IN  IF a.err # "" THEN IntResult(a.err, 0)
        ELSE IF index.err # "" THEN IntResult(index.err, 0)
        ELSE IF iv.err # "" THEN IntResult(iv.err, 0)
        ELSE IF iv.none THEN IntResult("InterpretationError", 0)
        ELSE IF a.val.kind = "int" THEN IntResult("TypeError", 0)
        ELSE IF a.val.kind = "str"
        THEN IF iv.n < 0 \/ iv.n >= Len(a.val.s) THEN IntResult("InterpretationError", 0)
             ELSE EvalRes("", StrV(<<a.val.s[iv.n + 1]>>), FALSE, <<>>)
        ELSE IF iv.n < 0 \/ iv.n >= Len(ItemsOf(a, h)) THEN IntResult("InterpretationError", 0)
        ELSE LET e == ItemsOf(a, h)[iv.n + 1]
             IN  EvalRes("", IF e.kind = "int" THEN IntV(e.i) ELSE StrV(e.s), FALSE, <<>>)

\* Interpreter.visit on any expression of a knowledge definition
RECURSIVE Eval(_, _, _)
Eval(tree, collection, h) ==
    CASE tree.data = "term" ->
             term(tree.children[2].value, Eval(tree.children[1], collection, h),
                  Eval(tree.children[3], collection, h))
      [] tree.data = "factor" ->
             factor(tree.children[2].value, Eval(tree.children[1], collection, h),
                    Eval(tree.children[3], collection, h))
      [] tree.data = "power" ->
             power(Eval(tree.children[1], collection, h), Eval(tree.children[2], collection, h))
      [] tree.data = "length" -> length(Eval(tree.children[1], collection, h), h)
      [] tree.data = "array_item" ->
             array_item(Eval(tree.children[1], collection, h),
                        Eval(tree.children[2], collection, h), h)
      [] tree.data \in {"count", "var_ref", "tx_basic", "tx_state", "contract_basic",
                        "contract_state"} -> IntResult("InterpretationError", 0)
      [] OTHER -> Visit(tree, collection)

----------------------------------------------------------------------------
\* _update_knowledge_base

ListHas(xs, x) == \E p \in 1..Len(xs) : xs[p] = x

\* list.remove(x): the first occurrence of x is taken out
ListRemove(xs, x) ==
    LET p == CHOOSE q \in 1..Len(xs) : xs[q] = x /\ \A r \in 1..(q - 1) : xs[r] # x
    IN  SubSeq(xs, 1, p - 1) \o SubSeq(xs, p + 1, Len(xs))

\* the round without the `value not in altered_array` test
AlterStepNoPresenceTest(func, altered, value) ==
    IF func = "add" THEN Append(altered, value)
    ELSE IF func = "del" /\ ListHas(altered, value) THEN ListRemove(altered, value)
    ELSE altered

\* the round with the test of add turned round
AlterStepAddsPresent(func, altered, value) ==
    IF func = "add" /\ ListHas(altered, value) THEN Append(altered, value)
    ELSE IF func = "del" /\ ListHas(altered, value) THEN ListRemove(altered, value)
    ELSE altered

\* one round of `for value in k_value` (lines 141-145)
AlterStep(func, altered, value) ==
    IF func = "add" /\ ~ListHas(altered, value) THEN Append(altered, value)
    ELSE IF func = "del" /\ ListHas(altered, value) THEN ListRemove(altered, value)
    ELSE altered

\* The loop `for value in k_value`, from position idx on.  same says that
\* k_value and altered_array are one list object: the iterator then reads
\* the list as the loop body has left it.
RECURSIVE AlterLoop(_, _, _, _, _)
AlterLoop(func, altered, k_value, same, idx) ==
    LET cur == IF same THEN altered ELSE k_value
    IN  IF idx > Len(cur) THEN altered
        ELSE AlterLoop(func, AlterStep(func, altered, cur[idx]), k_value, same, idx + 1)

UpdRes(err, d, h, A, V, mismatch, same, local) ==
    [err |-> err, kb_dict |-> d, heap |-> h, A |-> A, V |-> V,
     mismatch |-> mismatch, same |-> same, local |-> local]

\* k_func = "" stands for None (a knowledge_init entry)
UpdateKnowledgeBase(d, h, k_name, ev, k_func) ==
    IF k_func = ""
    THEN IF ev.fresh
         THEN UpdRes("", DictUpdate(d, k_name, ListV(Len(h) + 1)), Append(h, ev.items),
                     <<>>, <<>>, FALSE, FALSE, <<>>)
         ELSE UpdRes("", DictUpdate(d, k_name, ev.val), h, <<>>, <<>>, FALSE, FALSE, <<>>)
    ELSE IF ~DictHas(d, k_name)
    THEN UpdRes("InterpretationError", d, h, <<>>, <<>>, FALSE, FALSE, <<>>)
    ELSE IF DictGet(d, k_name).kind # "list"
    THEN UpdRes("InterpretationError", d, h, <<>>, <<>>, FALSE, FALSE, <<>>)
    ELSE
    LET aref == DictGet(d, k_name).ref
        altered_array == h[aref]
        \* lines 123-124: a value that is not a list becomes a one-element list
        k_value == IF ev.val.kind = "list"
                   THEN (IF ev.fresh THEN ev.items ELSE h[ev.val.ref])
                   ELSE IF ev.val.kind = "int" THEN <<IntE(ev.val.i)>>
                   ELSE <<StrE(ev.val.s)>>
        same == ev.val.kind = "list" /\ ~ev.fresh /\ ev.val.ref = aref
    IN  IF k_value = <<>>
        THEN \* k_value[0] on an empty list
             UpdRes("IndexError", d, h, altered_array, k_value, FALSE, same, <<>>)
        ELSE
        LET value_type == k_value[1].kind
            array_type == IF altered_array = <<>> THEN value_type ELSE altered_array[1].kind
        IN  IF value_type # array_type
            THEN \* lines 137-139 rebind the two locals to new lists; the
                 \* loop then alters the new list, the stored one is left
                 LET strs == [p \in 1..Len(altered_array) |-> PyStr(altered_array[p])]
                     vals == [p \in 1..Len(k_value) |-> PyStr(k_value[p])]
                 IN  UpdRes("", d, h, altered_array, k_value, TRUE, FALSE,
                            AlterLoop(k_func, strs, vals, FALSE, 1))
            ELSE LET res == AlterLoop(k_func, altered_array, k_value, same, 1)
                 IN  UpdRes("", d, [h EXCEPT ![aref] = res], altered_array, k_value,
                            FALSE, same, res)

----------------------------------------------------------------------------
\* Emitted text.  A Python str that is only built and measured is a sequence
\* of lines (the text between its newlines); "" is <<"">>.

TStr(str) == <<str>>

TNewline == <<"", "">>

\* a + b
TCat(a, b) ==
    SubSeq(a, 1, Len(a) - 1) \o <<a[Len(a)] \o b[1]>> \o SubSeq(b, 2, Len(b))

RECURSIVE TCatAll(_)
TCatAll(ts) == IF ts = <<>> THEN TStr("") ELSE TCat(Head(ts), TCatAll(Tail(ts)))

\* sep.join(ts)
RECURSIVE TJoin(_, _)
TJoin(sep, ts) ==
    IF ts = <<>> THEN TStr("")
    ELSE IF Len(ts) = 1 THEN ts[1]
    ELSE TCat(ts[1], TCat(sep, TJoin(sep, Tail(ts))))

\* len(a)
RECURSIVE TLen(_)
TLen(a) == IF Len(a) = 1 THEN Len(a[1]) ELSE Len(a[1]) + 1 + TLen(Tail(a))

\* textwrap.indent(a, prefix): the prefix goes before every line that is
\* not blank
TIndent(a, prefix) == [p \in 1..Len(a) |-> IF a[p] = "" THEN "" ELSE prefix \o a[p]]

----------------------------------------------------------------------------
\* KnowledgeBaseTranslator

\* _knowledge2string on an int or a str: repr(var).replace("'", '"')
ElemToText(e) ==
    IF e.kind = "int" THEN TStr(Flat(IntToStr(e.i)))
    ELSE TStr("\"" \o Flat(e.s) \o "\"")

\* _knowledge2string
Knowledge2String(v, h) ==
    IF v.kind = "int" THEN ElemToText(IntE(v.i))
    ELSE IF v.kind = "str" THEN ElemToText(StrE(v.s))
    ELSE LET xs == h[v.ref]
         IN  TCatAll(<<TStr("["), TJoin(TStr(", "), [p \in 1..Len(xs) |-> ElemToText(xs[p])]),
                       TStr("]")>>)

translate_knowledge_def(kb, k, v, h) ==
    TCatAll(<<TStr("const "), Knowledge2String(v, h), TStr(" as "),
              TStr(Flat(kb \o <<"_">> \o k)), TStr(";"), TNewline>>)

\* KnowledgeBaseTranslator.translate
KBTranslate(collection, h) ==
    LET OfKb(q) ==
            LET d == collection[q].v
            IN  TCatAll([p \in 1..Len(d) |->
                             translate_knowledge_def(collection[q].k, d[p].k, d[p].v, h)])
        code == TCatAll([q \in 1..Len(collection) |-> OfKb(q)])
    IN  IF code # TStr("") THEN TCat(code, TNewline) ELSE code

----------------------------------------------------------------------------
\* The interpreter run on a whole program, as CodeGenerator.generate calls
\* it: a program is a sequence of blocks [name, entries], an entry is
\* [k_name, k_func, expr] with k_func = "" for knowledge_init.

RECURSIVE RunEntries(_, _, _, _), EntryEvaluated(_, _, _, _, _), EntryUpdated(_, _, _)
RunEntries(collection, d, h, entries) ==
    IF entries = <<>> THEN [err |-> "", kb_dict |-> d, heap |-> h]
    ELSE EntryEvaluated(Eval(Head(entries).expr, collection, h), collection, d, h, entries)

\* the first entry's expression has been visited with the result ev
EntryEvaluated(ev, collection, d, h, entries) ==
    IF ev.err # "" THEN [err |-> ev.err, kb_dict |-> d, heap |-> h]
    ELSE EntryUpdated(UpdateKnowledgeBase(d, h, Head(entries).k_name, ev, Head(entries).k_func),
                      collection, entries)

\* _update_knowledge_base has run for the first entry with the result upd
EntryUpdated(upd, collection, entries) ==
    IF upd.err # "" THEN [err |-> upd.err, kb_dict |-> upd.kb_dict, heap |-> upd.heap]
    ELSE RunEntries(collection, upd.kb_dict, upd.heap, Tail(entries))

\* KnowledgeBaseInterpreter.start from kb_dict_collection = collection
RECURSIVE RunBlocks(_, _, _), BlockRun(_, _, _)
RunBlocks(collection, h, prog) ==
    IF prog = <<>> THEN [err |-> "", collection |-> collection, heap |-> h]
    ELSE BlockRun(RunEntries(collection, <<>>, h, Head(prog).entries), collection, prog)

\* knowledgebase_block has run for the first block with the result r
BlockRun(r, collection, prog) ==
    IF r.err # "" THEN [err |-> r.err, collection |-> collection, heap |-> r.heap]
    ELSE RunBlocks(DictUpdate(collection, Head(prog).name, r.kb_dict), r.heap, Tail(prog))

----------------------------------------------------------------------------
\* Names the rule translator writes into the MSL tree

N_output == <<"o", "u", "t", "p", "u", "t">>

N_value == <<"v", "a", "l", "u", "e">>

N_tx == <<"t", "x">>

N_contract == <<"c", "o", "n", "t", "r", "a", "c", "t">>

N_from == <<"f", "r", "o", "m">>

N_length == <<"l", "e", "n", "g", "t", "h">>

N_args == <<"a", "r", "g", "s">>

N_state == <<"s", "t", "a", "t", "e">>

F_contains == <<"r", "e", "g", "l", "a", "n", "g", ".", "c", "o", "n", "t", "a", "i", "n", "s">>

F_count == <<"r", "e", "g", "l", "a", "n", "g", ".", "c", "o", "u", "n", "t">>

F_count_eq == <<"r", "e", "g", "l", "a", "n", "g", ".", "c", "o", "u", "n", "t", "_", "e", "q">>

F_count_neq == <<"r", "e", "g", "l", "a", "n", "g", ".", "c", "o", "u", "n", "t", "_", "n", "e", "q">>

F_count_le == <<"r", "e", "g", "l", "a", "n", "g", ".", "c", "o", "u", "n", "t", "_", "l", "e">>

F_count_ge == <<"r", "e", "g", "l", "a", "n", "g", ".", "c", "o", "u", "n", "t", "_", "g", "e">>

F_count_lt == <<"r", "e", "g", "l", "a", "n", "g", ".", "c", "o", "u", "n", "t", "_", "l", "t">>

F_count_gt == <<"r", "e", "g", "l", "a", "n", "g", ".", "c", "o", "u", "n", "t", "_", "g", "t">>

F_count_member == <<"r", "e", "g", "l", "a", "n", "g", ".", "c", "o", "u", "n", "t", "_", "m", "e", "m", "b", "e", "r">>

ERROR_CODE_BASE == 1000

ERROR_CODE_STEP == 1000

----------------------------------------------------------------------------
\* TemplateInfo

\* TemplateInfo.__init__ and TemplateInfo.reset: nothing is used
TemplateInfoReset ==
    [has_tx_var |-> FALSE, has_contract_var |-> FALSE,
     predefined_func |->
         <<[k |-> F_contains, v |-> FALSE], [k |-> F_count, v |-> FALSE],
           [k |-> F_count_eq, v |-> FALSE], [k |-> F_count_neq, v |-> FALSE],
           [k |-> F_count_le, v |-> FALSE], [k |-> F_count_ge, v |-> FALSE],
           [k |-> F_count_lt, v |-> FALSE], [k |-> F_count_gt, v |-> FALSE],
           [k |-> F_count_member, v |-> FALSE]>>]

\* what one callback writes into template_info: the helpers it marks as
\* used and the two input flags
NoMarks == [funcs |-> {}, tx |-> FALSE, contract |-> FALSE]

MarkFunc(f) == [funcs |-> {f}, tx |-> FALSE, contract |-> FALSE]

MarkTx == [funcs |-> {}, tx |-> TRUE, contract |-> FALSE]

MarkContract == [funcs |-> {}, tx |-> FALSE, contract |-> TRUE]

JoinMarks(m1, m2) ==
    [funcs |-> m1.funcs \cup m2.funcs, tx |-> m1.tx \/ m2.tx,
     contract |-> m1.contract \/ m2.contract]

ApplyMarks(info, m) ==
    [has_tx_var |-> info.has_tx_var \/ m.tx,
     has_contract_var |-> info.has_contract_var \/ m.contract,
     predefined_func |->
         [p \in 1..Len(info.predefined_func) |->
             [k |-> info.predefined_func[p].k,
              v |-> info.predefined_func[p].v \/ info.predefined_func[p].k \in m.funcs]]]

----------------------------------------------------------------------------
\* RuleTransitionBuilder: the callbacks of the transformer.  Each takes the
\* children already transformed and gives the tree that replaces the node.

_construct_func_call(function_name, arguments) ==
    Tree("func_call", <<Tok("NAME", function_name), Tree("func_arguments", arguments)>>)

OutputValue == Tree("getattr", <<Tree("var_ref", <<Tok("NAME", N_output)>>), Tok("NAME", N_value)>>)

\* the placeholder error code of rule_block (line 160)
PlaceholderCode == Tree("number", <<Tok("NUMBER", <<"1">>)>>)

\* the loop of lines 164-165 over reversed(stmts[:-1])
RECURSIVE NestChecks(_, _)
NestChecks(stmts, inner_term) ==
    IF stmts = <<>> THEN inner_term
    ELSE NestChecks(SubSeq(stmts, 1, Len(stmts) - 1),
                    Tree("conditional_expr", <<stmts[Len(stmts)], PlaceholderCode, inner_term>>))

\* rule_block that nests the checks from the last one down to the first
rule_block_last_check_first(name, guard, stmts) ==
    IF Len(stmts) = 0 THEN Tree("skip_stmt", <<Tok("SEMICOLON", <<";">>)>>)
    ELSE LET inner_term == Tree("conditional_expr", <<stmts[1], PlaceholderCode, OutputValue>>)
             nested == NestChecks([p \in 1..(Len(stmts) - 1) |-> stmts[Len(stmts) + 1 - p]],
                                  inner_term)
             outer_term == Tree("conditional_expr", <<guard, nested, OutputValue>>)
         IN  Tree("assign_stmt", <<OutputValue, Tok("EQUAL", <<"=">>), outer_term>>)

rule_block(name, guard, stmts) ==
    IF Len(stmts) = 0 THEN Tree("skip_stmt", <<Tok("SEMICOLON", <<";">>)>>)
    ELSE LET inner_term == Tree("conditional_expr", <<stmts[Len(stmts)], PlaceholderCode, OutputValue>>)
             nested == NestChecks(SubSeq(stmts, 1, Len(stmts) - 1), inner_term)
             outer_term == Tree("conditional_expr", <<guard, nested, OutputValue>>)
         IN  Tree("assign_stmt", <<OutputValue, Tok("EQUAL", <<"=">>), outer_term>>)

reg_scope(condition) == condition

prohibit_stmt(condition) == condition

\* require_stmt that forgets the negation
require_stmt_unnegated(condition) == prohibit_stmt(condition)

require_stmt(condition) == prohibit_stmt(Tree("not_expr", <<condition>>))

membership(element, kref) == _construct_func_call(F_contains, <<kref, element>>)

\* the rule transformer's knowledge_ref: the constant's name
rt_knowledge_ref(kb, k) == Tree("var_ref", <<Tok(kb.type, kb.value \o <<"_">> \o k.value)>>)

tx_basic(basic) ==
    Tree("getattr", <<Tree("var_ref", <<Tok("NAME", N_tx)>>), Tok("NAME", basic.value)>>)

\* the rule transformer's string: the token in lower case
rt_string(token) == Tree("string", <<Tok("STRING", StrLower(token.value))>>)

\* str.strip('"') of Python
RECURSIVE StripQuoteChars(_)
StripQuoteChars(cs) ==
    IF cs = <<>> THEN cs
    ELSE IF Head(cs) = "\"" THEN StripQuoteChars(Tail(cs))
    ELSE IF cs[Len(cs)] = "\"" THEN StripQuoteChars(SubSeq(cs, 1, Len(cs) - 1))
    ELSE cs

_convert_string_to_number(tree) ==
    IF tree.data # "string" THEN tree
    ELSE Tree("number", <<Tok("NUMBER", StripQuoteChars(tree.children[1].value))>>)

\* what a callback leaves when it raises: lark wraps the exception in a
\* VisitError and transform() ends
Raised(exc) == Tree("VisitError", <<Tok("ERROR", exc)>>)

and_expr(conditions) == Tree("and_expr", conditions)

or_expr(conditions) == Tree("or_expr", conditions)

NodeTypes == {"number", "string", "power_expr", "mul_expr", "add_expr"}

compare_expr(left, operator, right) ==
    LET tree_name == IF operator.value \notin {<<"=", "=">>, <<"!", "=">>}
                     THEN "compare_expr" ELSE "equality_expr"
        both == left.data = "string" /\ right.data = "string"
        left_num == string2int(StripQuoteChars(left.children[1].value))
        right_num == string2int(StripQuoteChars(right.children[1].value))
        left2 == IF right.data \in NodeTypes /\ left.data = "string"
                 THEN _convert_string_to_number(left) ELSE left
        right2 == IF left2.data \in NodeTypes /\ right.data = "string"
                  THEN _convert_string_to_number(right) ELSE right
    IN  IF both /\ left_num.err # "" THEN Raised(left_num.err)
        ELSE IF both /\ right_num.err # "" THEN Raised(right_num.err)
        ELSE IF both /\ (left_num.none \/ right_num.none)
        THEN Tree(tree_name, <<left, operator, right>>)
        ELSE Tree(tree_name, <<left2, operator, right2>>)

\* operator_name_map with the operators of le and ge exchanged
OperatorNameSwapped(operator) ==
    CASE operator = <<"=", "=">> -> F_count_eq
      [] operator = <<"!", "=">> -> F_count_neq
      [] operator = <<"<", "=">> -> F_count_ge
      [] operator = <<">", "=">> -> F_count_le
      [] operator = <<"<">> -> F_count_lt
      [] operator = <<">">> -> F_count_gt

\* reglang.count_ and operator_name_map (lines 87-95)
OperatorName(operator) ==
    CASE operator = <<"=", "=">> -> F_count_eq
      [] operator = <<"!", "=">> -> F_count_neq
      [] operator = <<"<", "=">> -> F_count_le
      [] operator = <<">", "=">> -> F_count_ge
      [] operator = <<"<">> -> F_count_lt
      [] operator = <<">">> -> F_count_gt

\* the asserts of _translate_builtin_boolean_func hold for the condition
BuiltinAccepts(condition) ==
    /\ condition.data \in {"equality_expr", "compare_expr", "func_call"}
    /\ condition.data = "func_call" =>
           /\ Len(condition.children) = 2
           /\ ~IsToken(condition.children[2])
           /\ condition.children[2].data = "func_arguments"
           /\ Len(condition.children[2].children) = 2
    /\ condition.data # "func_call" => Len(condition.children) = 3

\* the func_name of _translate_builtin_boolean_func
BuiltinFuncName(condition) ==
    IF condition.data = "func_call" THEN F_count_member
    ELSE OperatorName(condition.children[2].value)

_translate_builtin_boolean_func(condition) ==
    IF ~BuiltinAccepts(condition) THEN Raised("AssertionError")
    ELSE IF condition.data = "func_call"
    THEN _construct_func_call(BuiltinFuncName(condition), condition.children[2].children)
    ELSE _construct_func_call(BuiltinFuncName(condition),
                              <<condition.children[1], condition.children[3]>>)

at_least(expr, condition) ==
    LET func_call_tree == _translate_builtin_boolean_func(condition)
    IN  IF func_call_tree.data = "VisitError" THEN func_call_tree
        ELSE Tree("compare_expr", <<func_call_tree, Tok("__ANON_3", <<">", "=">>),
                                    _convert_string_to_number(expr)>>)

at_most(expr, condition) ==
    LET func_call_tree == _translate_builtin_boolean_func(condition)
    IN  IF func_call_tree.data = "VisitError" THEN func_call_tree
        ELSE Tree("compare_expr", <<func_call_tree, Tok("__ANON_2", <<"<", "=">>),
                                    _convert_string_to_number(expr)>>)

any_item(condition) ==
    LET func_call_tree == _translate_builtin_boolean_func(condition)
    IN  IF func_call_tree.data = "VisitError" THEN func_call_tree
        ELSE Tree("compare_expr", <<func_call_tree, Tok("__ANON_3", <<">", "=">>),
                                    Tree("number", <<Tok("NUMBER", <<"1">>)>>)>>)

all_items(condition) ==
    LET func_call_tree == _translate_builtin_boolean_func(condition)
    IN  IF func_call_tree.data = "VisitError" THEN func_call_tree
        ELSE LET array_argument == func_call_tree.children[2].children[1]
                 length_argument == Tree("func_arguments", <<array_argument>>)
                 expr == Tree("func_call", <<Tok("NAME", N_length), length_argument>>)
             IN  Tree("compare_expr", <<func_call_tree, Tok("__ANON_0", <<"=", "=">>), expr>>)

rt_term(left, operator, right) ==
    Tree("add_expr", <<_convert_string_to_number(left), operator,
                       _convert_string_to_number(right)>>)

rt_factor(left, operator, right) ==
    Tree("mul_expr", <<_convert_string_to_number(left), operator,
                       _convert_string_to_number(right)>>)

rt_power(base, exponent) ==
    Tree("power_expr", <<_convert_string_to_number(base), _convert_string_to_number(exponent)>>)

rt_length(expr) == _construct_func_call(N_length, <<expr>>)

rt_count(children) == _construct_func_call(F_count, <<Tree("array", children)>>)

\* a var_ref turned into the string of its name (tx_state, tx_args, contract_state)
NameAsString(var) ==
    IF var.data = "var_ref"
    THEN Tree("string", <<Tok("STRING", Quote(var.children[1].value))>>)
    ELSE var

tx_state(state, address, var) ==
    LET tx_state_tree ==
            Tree("getattr", <<Tree("var_ref", <<Tok("NAME", N_tx)>>), Tok("NAME", state.value)>>)
    IN  Tree("getitem", <<Tree("getitem", <<tx_state_tree, address>>), NameAsString(var)>>)

tx_args(var) ==
    LET tx_args_tree ==
            Tree("getattr", <<Tree("var_ref", <<Tok("NAME", N_tx)>>), Tok("NAME", N_args)>>)
    IN  Tree("getitem", <<tx_args_tree, NameAsString(var)>>)

contract_basic(address, basic) ==
    LET address_item == Tree("getitem", <<Tree("var_ref", <<Tok("NAME", N_contract)>>), address>>)
    IN  Tree("getattr", <<address_item, Tok("NAME", basic.value)>>)

contract_state(address, var) ==
    IF var.data # "var_ref" THEN Raised("AssertionError")
    ELSE LET address_item ==
                 Tree("getitem", <<Tree("var_ref", <<Tok("NAME", N_contract)>>), address>>)
             state_tree == Tree("getattr", <<address_item, Tok("NAME", N_state)>>)
         IN  Tree("getitem", <<state_tree, NameAsString(var)>>)

rt_array_item(arr, index) == Tree("getitem", <<arr, _convert_string_to_number(index)>>)

\* Transformer._call_userfunc: the callback of the node's rule, or the
\* default that keeps the node with its new children; an exception of a
\* callback below ends the transformation
Callback(data, ch) ==
    IF \E p \in 1..Len(ch) : ch[p].data = "VisitError"
    THEN ch[CHOOSE p \in 1..Len(ch) : ch[p].data = "VisitError"
                                      /\ \A q \in 1..(p - 1) : ch[q].data # "VisitError"]
    ELSE
    CASE data = "rule_block" -> rule_block(ch[1], ch[2], SubSeq(ch, 3, Len(ch)))
      [] data = "reg_scope" -> reg_scope(ch[1])
      [] data = "require_stmt" -> require_stmt(ch[1])
      [] data = "prohibit_stmt" -> prohibit_stmt(ch[1])
      [] data = "and_expr" -> and_expr(ch)
      [] data = "or_expr" -> or_expr(ch)
      [] data = "compare_expr" -> compare_expr(ch[1], ch[2], ch[3])
      [] data = "membership" -> membership(ch[1], ch[2])
      [] data = "at_least" -> at_least(ch[1], ch[2])
      [] data = "at_most" -> at_most(ch[1], ch[2])
      [] data = "any_item" -> any_item(ch[1])
      [] data = "all_items" -> all_items(ch[1])
      [] data = "term" -> rt_term(ch[1], ch[2], ch[3])
      [] data = "factor" -> rt_factor(ch[1], ch[2], ch[3])
      [] data = "power" -> rt_power(ch[1], ch[2])
      [] data = "length" -> rt_length(ch[1])
      [] data = "count" -> rt_count(ch)
      [] data = "knowledge_ref" -> rt_knowledge_ref(ch[1], ch[2])
      [] data = "tx_basic" -> tx_basic(ch[1])
      [] data = "tx_state" -> tx_state(ch[1], ch[2], ch[3])
      [] data = "tx_args" -> tx_args(ch[1])
      [] data = "contract_basic" -> contract_basic(ch[1], ch[2])
      [] data = "contract_state" -> contract_state(ch[1], ch[2])
      [] data = "array_item" -> rt_array_item(ch[1], ch[2])
      [] data = "string" -> rt_string(ch[1])
      [] OTHER -> Tree(data, ch)

\* what the callback of the node's rule writes into template_info, given
\* the children already transformed
CallbackMarks(data, ch) ==
    IF \E p \in 1..Len(ch) : ch[p].data = "VisitError" THEN NoMarks
    ELSE
    CASE data = "membership" -> MarkFunc(F_contains)
      [] data = "count" -> MarkFunc(F_count)
      [] data \in {"at_least", "at_most", "any_item", "all_items"} ->
             LET condition == ch[Len(ch)]
             IN  IF BuiltinAccepts(condition) THEN MarkFunc(BuiltinFuncName(condition))
                 ELSE NoMarks
      [] data \in {"tx_basic", "tx_state", "tx_args"} -> MarkTx
      [] data \in {"contract_basic", "contract_state"} -> MarkContract
      [] OTHER -> NoMarks

\* Transformer.transform: bottom-up, children first
RECURSIVE Transform(_)
Transform(t) ==
    IF IsToken(t) THEN t
    ELSE Callback(t.data, [p \in 1..Len(t.children) |-> Transform(t.children[p])])

RECURSIVE TransformMarks(_)
TransformMarks(t) ==
    IF IsToken(t) THEN NoMarks
    ELSE LET ch == [p \in 1..Len(t.children) |-> Transform(t.children[p])]
             Sub[p \in 0..Len(t.children)] ==
                 IF p = 0 THEN NoMarks
                 ELSE JoinMarks(Sub[p - 1], TransformMarks(t.children[p]))
         IN  JoinMarks(Sub[Len(t.children)], CallbackMarks(t.data, ch))

----------------------------------------------------------------------------
\* RuleTransitionBuilder.start

Max(S) == CHOOSE m \in S : \A n \in S : n <= m

RECURSIVE get_nested_level(_, _)
get_nested_level(tree, name) ==
    IF IsToken(tree) THEN 0
    ELSE LET nested == IF tree.data = name THEN 1 ELSE 0
         IN  IF Len(tree.children) = 0 THEN nested
             ELSE nested + Max({get_nested_level(tree.children[p], name) :
                                    p \in 1..Len(tree.children)})

\* error_codes without the [::-1] of line 138
ErrorCodesNotReversed(prefix, n) == [p \in 1..n |-> prefix + p]

\* error_codes of line 138: prefix + 1 .. prefix + n, reversed
ErrorCodes(prefix, n) == [p \in 1..n |-> prefix + (n - p) + 1]

\* the while loop of lines 141-148: every conditional of the chain gets the
\* number popped from the end of error_codes
RECURSIVE SetCodes(_, _)
SetCodes(cur_condition, error_codes) ==
    IF cur_condition.data # "conditional_expr" THEN cur_condition
    ELSE LET error_code ==
                 Tree("number", <<Tok("NUMBER", IntToStr(error_codes[Len(error_codes)]))>>)
         IN  Tree("conditional_expr",
                  <<cur_condition.children[1], error_code,
                    SetCodes(cur_condition.children[3],
                             SubSeq(error_codes, 1, Len(error_codes) - 1))>>)

\* one round of `for rule in rules` on an assign_stmt
NumberRule(rule, error_code_prefix) ==
    LET outer == rule.children[3]
        conditions == outer.children[2]
        condition_num == get_nested_level(conditions, "conditional_expr")
        numbered == SetCodes(conditions, ErrorCodes(error_code_prefix, condition_num))
    IN  Tree("assign_stmt",
             <<rule.children[1], rule.children[2],
               Tree("conditional_expr", <<outer.children[1], numbered, outer.children[3]>>)>>)

TooManyChecks(rule) ==
    get_nested_level(rule.children[3].children[2], "conditional_expr") >= ERROR_CODE_STEP

\* the prefix after a rule has been handled (lines 123-124 and 150)
NextPrefix(rule, error_code_prefix) ==
    IF rule.data = "skip_stmt" THEN error_code_prefix
    ELSE error_code_prefix + ERROR_CODE_STEP

\* the loop of lines 121-150 from error_code_prefix on
RECURSIVE NumberRules(_, _)
NumberRules(rules, error_code_prefix) ==
    IF rules = <<>> THEN [err |-> "", rules |-> <<>>]
    ELSE LET rule == Head(rules)
         IN  IF rule.data # "skip_stmt" /\ TooManyChecks(rule)
             THEN [err |-> "MaxRuleStatementError", rules |-> <<>>]
             ELSE LET rest == NumberRules(Tail(rules), NextPrefix(rule, error_code_prefix))
                      done == IF rule.data = "skip_stmt" THEN rule
                              ELSE NumberRule(rule, error_code_prefix)
                  IN  [err |-> rest.err, rules |-> <<done>> \o rest.rules]

\* the filter of lines 115-118
RECURSIVE RuleStmts(_)
RuleStmts(children) ==
    IF children = <<>> THEN <<>>
    ELSE IF ~IsToken(Head(children)) /\ Head(children).data \in {"skip_stmt", "assign_stmt"}
    THEN <<Head(children)>> \o RuleStmts(Tail(children))
    ELSE RuleStmts(Tail(children))

start(children) ==
    LET r == NumberRules(RuleStmts(children), ERROR_CODE_BASE)
    IN  [err |-> r.err, tree |-> Tree("transition_body", r.rules)]

----------------------------------------------------------------------------
\* MslAstSerializer

SerializerRules ==
    {"rule", "conditional_expr", "skip_stmt", "assign_stmt", "or_expr", "and_expr",
     "not_expr", "const_true", "const_false", "compare_expr", "equality_expr",
     "add_expr", "mul_expr", "power_expr", "func_call", "func_templates",
     "func_arguments", "var_ref", "getitem", "getattr", "array", "number", "string"}

\* MslAstSerializer.precedence, 0 for a node that is not in the table
Precedence(data) ==
    CASE data = "power_expr" -> 1
      [] data = "mul_expr" -> 2
      [] data = "add_expr" -> 3
      [] data = "equality_expr" -> 4
      [] data = "compare_expr" -> 5
      [] data = "not_expr" -> 6
      [] data = "and_expr" -> 7
      [] data = "or_expr" -> 8
      [] data = "conditional_expr" -> 9
      [] OTHER -> 0

InPrecedence(data) == Precedence(data) # 0

_has_higher_precedence(this, that) == Precedence(this) < Precedence(that)

TokText(tok) == TStr(Flat(tok.value))

Paren(a) == TCatAll(<<TStr("("), a, TStr(")")>>)

\* the branch of a conditional, lines 76-85
Branch(data, val) ==
    IF ~InPrecedence(data) THEN val
    ELSE IF TLen(val) < 50 THEN Paren(val)
    ELSE TCatAll(<<TStr("("), TNewline, TIndent(val, "    "), TNewline, TStr(")")>>)

\* a rule of the serializer applied to a node; the node's rule is in
\* SerializerRules
RECURSIVE Ser(_)
Ser(t) ==
    LET ch == t.children
        \* visit_children: a token child is left as it is
        Kids == [p \in 1..Len(ch) |-> IF IsToken(ch[p]) THEN TokText(ch[p]) ELSE Ser(ch[p])]
        \* _binary_expr
        Binary(this, operator, left, right) ==
            LET left_str == IF _has_higher_precedence(this, left.data)
                               \/ (this = "power_expr" /\ left.data = "power_expr")
                            THEN Paren(Ser(left)) ELSE Ser(left)
                right_str == IF _has_higher_precedence(this, right.data)
                             THEN Paren(Ser(right)) ELSE Ser(right)
            IN  TCatAll(<<left_str, TStr(" "), operator, TStr(" "), right_str>>)
    IN  CASE t.data = "rule" -> TCatAll(Kids)
          [] t.data = "conditional_expr" ->
                LET condition_str == IF InPrecedence(ch[1].data) THEN Paren(Ser(ch[1]))
                                     ELSE Ser(ch[1])
                    then_val == Branch(ch[2].data, Ser(ch[2]))
                    else_val == Branch(ch[3].data, Ser(ch[3]))
                    line_break == IF TLen(condition_str) < 30 THEN TStr(" ") ELSE TNewline
                IN  TCatAll(<<condition_str, TStr(" ?"), line_break, then_val, TStr(" : "),
                              else_val>>)
          [] t.data = "skip_stmt" -> TStr(";")
          [] t.data = "assign_stmt" ->
                TCatAll(<<Ser(ch[1]), TStr(" "), TokText(ch[2]), TStr(" "), Ser(ch[3]), TStr(";")>>)
          [] t.data = "or_expr" -> Binary("or_expr", TStr("||"), ch[1], ch[2])
          [] t.data = "and_expr" -> Binary("and_expr", TStr("&&"), ch[1], ch[2])
          [] t.data = "not_expr" ->
                IF ch[1].data \in {"equality_expr", "compare_expr", "and_expr", "or_expr"}
                THEN TCat(TStr("!"), Paren(Ser(ch[1])))
                ELSE TCat(TStr("!"), Ser(ch[1]))
          [] t.data = "const_true" -> TStr("true")
          [] t.data = "const_false" -> TStr("false")
          [] t.data \in {"compare_expr", "equality_expr", "add_expr", "mul_expr"} ->
                Binary(t.data, TokText(ch[2]), ch[1], ch[3])
          [] t.data = "power_expr" -> Binary("power_expr", TStr("**"), ch[1], ch[2])
          [] t.data = "func_call" -> TCatAll(Kids)
          [] t.data = "func_templates" ->
                TCatAll(<<TStr("<"), TJoin(TStr(", "), Kids), TStr(">")>>)
          [] t.data = "func_arguments" ->
                TCatAll(<<TStr("("), TJoin(TStr(", "), Kids), TStr(")")>>)
          [] t.data = "var_ref" -> TokText(ch[1])
          [] t.data = "getitem" -> TCatAll(<<Ser(ch[1]), TStr("["), Ser(ch[2]), TStr("]")>>)
          [] t.data = "getattr" -> TCatAll(<<Ser(ch[1]), TStr("."), TokText(ch[2])>>)
          [] t.data = "array" -> TCatAll(<<TStr("["), TJoin(TStr(", "), Kids), TStr("]")>>)
          [] t.data = "number" -> TokText(ch[1])
          [] t.data = "string" -> TokText(ch[1])

\* Python values the translator handles: a str or a list of values
PyStrVal(text) == [type |-> "str", text |-> text, items |-> <<>>]

PyListVal(items) == [type |-> "list", text |-> TStr(""), items |-> items]

\* Interpreter.visit: the rule named by the node's data; a node whose data
\* names no rule of the serializer goes to __default__, which is
\* visit_children and gives the list of the children's results
SerVisit(t) ==
    IF t.data \in SerializerRules THEN PyStrVal(Ser(t))
    ELSE PyListVal([p \in 1..Len(t.children) |->
                       IF IsToken(t.children[p]) THEN PyStrVal(TokText(t.children[p]))
                       ELSE PyStrVal(Ser(t.children[p]))])

----------------------------------------------------------------------------
\* RuleTranslator

RECURSIVE StrJoin(_, _)
StrJoin(sep, strs) ==
    IF strs = <<>> THEN ""
    ELSE IF Len(strs) = 1 THEN strs[1]
    ELSE strs[1] \o sep \o StrJoin(sep, Tail(strs))

\* import_dependencies
import_dependencies(info) ==
    LET pf == info.predefined_func
        Line(p) == IF pf[p].v THEN <<"import " \o Flat(pf[p].k), "">> ELSE TStr("")
    IN  TCat(TCatAll([p \in 1..Len(pf) |-> Line(p)]),
             <<"import reglang.Contract as Contract", "import reglang.Tx as Tx", "", "">>)

\* construct_read_input that never asks for an input
ReadInputAlwaysPlain(info) == TStr("        !checking -> checking = true;")

\* construct_read_input
construct_read_input(info) ==
    IF ~info.has_tx_var /\ ~info.has_contract_var
    THEN TStr("        !checking -> checking = true;")
    ELSE LET requests ==
                 (IF info.has_tx_var
                  THEN <<"!checking && !tx_input.reqRead -> tx_input.reqRead = true;">>
                  ELSE <<>>)
                 \o (IF info.has_contract_var
                     THEN <<"!checking && !contract_input.reqRead -> contract_input.reqRead = true;">>
                     ELSE <<>>)
             conditions ==
                 <<"!checking">>
                 \o (IF info.has_tx_var THEN <<"(tx_input.reqRead && tx_input.reqWrite)">> ELSE <<>>)
                 \o (IF info.has_contract_var
                     THEN <<"(contract_input.reqRead && contract_input.reqWrite)">> ELSE <<>>)
             ports == (IF info.has_tx_var THEN <<"tx_input">> ELSE <<>>)
                      \o (IF info.has_contract_var THEN <<"contract_input">> ELSE <<>>)
             assignments ==
                 (IF info.has_tx_var THEN <<"tx = tx_input.value;">> ELSE <<>>)
                 \o (IF info.has_contract_var THEN <<"contract = contract_input.value;">> ELSE <<>>)
             guard == StrJoin(" && ", conditions)
             sync_port == "sync " \o StrJoin(", ", ports) \o ";"
             read_value == TIndent(assignments, "    ")
             read_input ==
                 requests \o <<guard \o " -> {", "    " \o sync_port>> \o read_value
                 \o <<"    checking = true;", "}">>
         IN  TIndent(read_input, "        ")

\* RuleTranslator.template with read_input and rules filled in
Template(read_input, rules) ==
    TCatAll(<<
        <<"automaton Rule (",
          "    tx_input: in Tx,",
          "    contract_input: in Contract,",
          "    output: out int",
          ") {",
          "    states {",
          "        bool pass = true;",
          "        bool checking = false;",
          "        Tx tx = null;",
          "        Contract contract = null;",
          "    }",
          "    transitions {",
          "">>,
        read_input,
        <<"",
          "        checking -> {",
          "            output.value = 0;",
          "">>,
        rules,
        <<"            pass = (output.value == 0);",
          "            checking = false;",
          "            sync output;",
          "        }",
          "    }",
          "}",
          "">> >>)

\* a call of the helper named name somewhere in the tree
RECURSIVE HasCall(_, _)
HasCall(t, name) ==
    /\ ~IsToken(t)
    /\ \/ t.data = "func_call" /\ t.children[1].value = name
       \/ \E p \in 1..Len(t.children) : HasCall(t.children[p], name)

\* `"reglang.contains(" in rule_transition_segment` (line 395): on a list, one
\* of its elements is that string; on a str, the str has it as a substring,
\* which it has when the tree has a call of the helper
ContainsCallText(segment, tree) ==
    IF segment.type = "list"
    THEN \E p \in 1..Len(segment.items) :
             segment.items[p] = PyStrVal(TStr("reglang.contains("))
    ELSE HasCall(tree, F_contains)

\* RuleTranslator.translate, lines 391-406, on the tree that transform() returned.
\* textwrap.indent calls splitlines() of its argument, which a list has not.
translate(tree, info) ==
    LET rule_transition_segment == SerVisit(tree)
        info2 == IF ~ContainsCallText(rule_transition_segment, tree)
                 THEN [info EXCEPT !.predefined_func =
                          DictUpdate(info.predefined_func, F_contains, FALSE)]
                 ELSE info
        dependency_import == import_dependencies(info2)
        read_input == construct_read_input(info2)
    IN  IF rule_transition_segment.type # "str"
        THEN [err |-> "AttributeError", dependency_import |-> TStr(""),
              automaton_def |-> TStr(""), info |-> info2]
        ELSE [err |-> "", dependency_import |-> dependency_import,
              automaton_def |->
                  Template(read_input, TIndent(rule_transition_segment.text, "            ")),
              info |-> TemplateInfoReset]

----------------------------------------------------------------------------
\* The interpreter as a state machine: start() walks the knowledge base
\* blocks in declaration order, a block walks its entries in order.

NoLast ==
    [op |-> "none", name |-> <<>>, expr |-> Tree("none", <<>>), err |-> "",
     A |-> <<>>, V |-> <<>>, mismatch |-> FALSE, same |-> FALSE, local |-> <<>>,
     pre_dict |-> <<>>, pre_heap |-> <<>>,
     prev_op |-> "none", prev_name |-> <<>>, prev_expr |-> Tree("none", <<>>)]

LastOf(op, name, expr, err, upd) ==
    [op |-> op, name |-> name, expr |-> expr, err |-> err,
     A |-> upd.A, V |-> upd.V, mismatch |-> upd.mismatch, same |-> upd.same,
     local |-> upd.local, pre_dict |-> kb_dict, pre_heap |-> heap,
     prev_op |-> last.op, prev_name |-> last.name, prev_expr |-> last.expr]

NoUpd == UpdRes("", <<>>, <<>>, <<>>, <<>>, FALSE, FALSE, <<>>)

KBInit ==
    /\ kb_dict_collection = <<>>
    /\ kb_dict = <<>>
    /\ kb_name = <<>>
    /\ heap = <<>>
    /\ kpc = "idle"
    /\ kb_result = <<>>
    /\ n_entries = 0
    /\ n_runs = 0
    /\ last = NoLast
    /\ run_names = {}

\* kb_interpreter.visit(ast): start() begins with the collection as it is
EnterStart ==
    /\ kpc' = "start"
    /\ n_runs' = n_runs + 1
    /\ last' = NoLast
    /\ run_names' = {}
    /\ UNCHANGED <<kb_dict_collection, kb_dict, kb_name, heap, kb_result, n_entries>>

\* the first visit of a new interpreter
VisitStart ==
    /\ kpc = "idle"
    /\ n_runs = 0
    /\ EnterStart

\* a long-lived interpreter is called again after a run that returned or raised
VisitAgain ==
    /\ kpc \in {"idle", "raised"}
    /\ n_runs > 0
    /\ n_runs < MaxRuns
    /\ EnterStart

\* knowledgebase_block, lines 63-68
EnterBlock(name) ==
    /\ kpc = "start"
    /\ kpc' = "block"
    /\ kb_name' = name
    /\ kb_dict' = <<>>
    /\ last' = [NoLast EXCEPT !.op = "begin"]
    /\ UNCHANGED <<kb_dict_collection, heap, kb_result, n_entries, n_runs, run_names>>

\* a block of a program of at most MaxEntries entries
BlockBegin(name) ==
    /\ n_entries < MaxEntries
    /\ EnterBlock(name)

\* one entry of a block: visit(k_tree), then _update_knowledge_base
EntryStep(op, k_name, expr, k_func) ==
    /\ kpc = "block"
    /\ n_entries' = n_entries + 1
    /\ LET ev == Eval(expr, kb_dict_collection, heap)
       IN  IF ev.err # ""
           THEN /\ kpc' = "raised"
                /\ last' = LastOf(op, k_name, expr, ev.err, NoUpd)
                /\ UNCHANGED <<kb_dict, heap>>
           ELSE LET upd == UpdateKnowledgeBase(kb_dict, heap, k_name, ev, k_func)
                IN  /\ kpc' = IF upd.err # "" THEN "raised" ELSE "block"
                    /\ last' = LastOf(op, k_name, expr, upd.err, upd)
                    /\ kb_dict' = upd.kb_dict
                    /\ heap' = upd.heap
    /\ UNCHANGED <<kb_dict_collection, kb_name, kb_result, n_runs, run_names>>

\* an entry of a program of at most MaxEntries entries
Entry(op, k_name, expr, k_func) ==
    /\ n_entries < MaxEntries
    /\ EntryStep(op, k_name, expr, k_func)

\* knowledge_init
KnowledgeInit(k_name, expr) == Entry("init", k_name, expr, "")

\* knowledge_alt
KnowledgeAlt(k_name, k_func, expr) == Entry(k_func, k_name, expr, k_func)

\* knowledgebase_block returns and start() stores the block (line 48)
BlockEnd ==
    /\ kpc = "block"
    /\ last.op # "begin"
    /\ kpc' = "start"
    /\ kb_dict_collection' = DictUpdate(kb_dict_collection, kb_name, kb_dict)
    /\ last' = [NoLast EXCEPT !.op = "end"]
    /\ run_names' = run_names \cup {kb_name}
    /\ UNCHANGED <<kb_dict, kb_name, heap, kb_result, n_entries, n_runs>>

\* start() returns, lines 50-53
StartReturn ==
    /\ kpc = "start"
    /\ kpc' = "idle"
    /\ kb_result' = kb_dict_collection
    /\ kb_dict_collection' = <<>>
    /\ last' = NoLast
    /\ UNCHANGED <<kb_dict, kb_name, heap, n_entries, n_runs, run_names>>

NextKB ==
    /\ \/ VisitStart
       \/ \E name \in KBNames : BlockBegin(name)
       \/ \E k_name \in ItemNames, expr \in KnowledgeExprs : KnowledgeInit(k_name, expr)
       \/ \E k_name \in ItemNames, k_func \in {"add", "del"}, expr \in KnowledgeExprs :
              KnowledgeAlt(k_name, k_func, expr)
       \/ BlockEnd
       \/ StartReturn
    /\ UNCHANGED <<rvars, fvars>>

----------------------------------------------------------------------------
\* The inputs of generate(): rule blocks and knowledge base programs

K1 == <<"k", "1">>

K2 == <<"k", "2">>

VarRef(name) == Tree("var_ref", <<Tok("NAME", name)>>)

Guards == {VarRef(<<"g">>), Tree("tx_basic", <<Tok("FROM", N_from)>>)}

Membership ==
    Tree("membership",
         <<VarRef(<<"y">>), Tree("knowledge_ref", <<Tok("NAME", K1), Tok("NAME", <<"a">>)>>)>>)

CheckStmts ==
    {Tree("require_stmt", <<VarRef(<<"x">>)>>), Tree("prohibit_stmt", <<Membership>>)}

RuleBlockTree(guard, stmts) ==
    Tree("rule_block", <<Tok("NAME", <<"r">>), Tree("reg_scope", <<guard>>)>> \o stmts)

KbEntry(k_name, k_func, expr) == [k_name |-> k_name, k_func |-> k_func, expr |-> expr]

NumArray(ns) == Tree("array", [p \in 1..Len(ns) |-> Tok("NUMBER", IntToStr(ns[p]))])

KbProgOne ==
    <<[name |-> K1,
       entries |-> <<KbEntry(<<"a">>, "", NumArray(<<1, 2>>)),
                     KbEntry(<<"a">>, "add", Tree("number", <<Tok("NUMBER", <<"3">>)>>)),
                     KbEntry(<<"b">>, "", Tree("string", <<Tok("STRING", Quote(<<"A">>))>>))>>]>>

\* a knowledge base whose definition refers to a knowledge base that the
\* program does not declare
KbProgUndefRef ==
    <<[name |-> K2,
       entries |-> <<KbEntry(<<"b">>, "",
                             Tree("knowledge_ref", <<Tok("NAME", K1), Tok("NAME", <<"a">>)>>))>>]>>

GenKBProgs == {<<>>, KbProgOne, KbProgUndefRef}

\* the knowledgebase_block tree of a block
KbBlockTree(blk) ==
    Tree("knowledgebase_block",
         <<Tok("NAME", blk.name)>>
         \o [p \in 1..Len(blk.entries) |->
                IF blk.entries[p].k_func = ""
                THEN Tree("knowledge_init",
                          <<Tok("NAME", blk.entries[p].k_name), blk.entries[p].expr>>)
                ELSE Tree("knowledge_alt",
                          <<Tok("NAME", blk.entries[p].k_name),
                            Tok("FUNC", IF blk.entries[p].k_func = "add"
                                        THEN <<"a", "d", "d">> ELSE <<"d", "e", "l">>),
                            blk.entries[p].expr>>)])

----------------------------------------------------------------------------
\* CodeGenerator.generate as a state machine: the knowledge base pass, the
\* transformer going through the children of the program bottom-up, its
\* start() callback, and the rest of RuleTranslator.translate.

NoTree == Tree("none", <<>>)

NoOut == [status |-> "none", err |-> "", text |-> TStr("")]

RInit ==
    /\ gen_kb = <<>>
    /\ const_def = TStr("")
    /\ kb_placed = 0
    /\ rl_rules = <<>>
    /\ blocks = <<>>
    /\ template_info = TemplateInfoReset
    /\ msl_ast = NoTree
    /\ rpc = "idle"
    /\ gen_out = NoOut
    /\ n_blocks = 0
    /\ n_gens = 0

\* generate(), lines 18-19, once the interpreter has ended with the result r
KbGenerated(r) ==
    IF r.err # ""
    THEN /\ rpc' = "raised"
         /\ gen_out' = [status |-> "raised", err |-> r.err, text |-> TStr("")]
         /\ const_def' = TStr("")
    ELSE /\ rpc' = "transform"
         /\ gen_out' = NoOut
         /\ const_def' = KBTranslate(r.collection, r.heap)

\* generate(), lines 18-19: the knowledge bases are interpreted and emitted
GenerateKB(prog) ==
    /\ rpc \in {"idle", "done", "raised"}
    /\ n_gens < MaxGens
    /\ n_gens' = n_gens + 1
    /\ gen_kb' = prog
    /\ kb_placed' = 0
    /\ rl_rules' = <<>>
    /\ blocks' = <<>>
    /\ msl_ast' = NoTree
    /\ KbGenerated(RunBlocks(<<>>, <<>>, prog))
    /\ UNCHANGED <<template_info, n_blocks>>

\* the transformer passes the next knowledge base block of the program
TransformKbBlock ==
    /\ rpc = "transform"
    /\ kb_placed < Len(gen_kb)
    /\ kb_placed' = kb_placed + 1
    /\ blocks' = Append(blocks, Transform(KbBlockTree(gen_kb[kb_placed + 1])))
    /\ template_info' = ApplyMarks(template_info, TransformMarks(KbBlockTree(gen_kb[kb_placed + 1])))
    /\ UNCHANGED <<gen_kb, const_def, rl_rules, msl_ast, rpc, gen_out, n_blocks, n_gens>>

\* the transformer passes a rule block: rule_block and the callbacks below it
TransformRuleBlock(guard, stmts) ==
    /\ rpc = "transform"
    /\ n_blocks < MaxBlocks
    /\ n_blocks' = n_blocks + 1
    /\ rl_rules' = Append(rl_rules, RuleBlockTree(guard, stmts))
    /\ blocks' = Append(blocks, Transform(RuleBlockTree(guard, stmts)))
    /\ template_info' = ApplyMarks(template_info, TransformMarks(RuleBlockTree(guard, stmts)))
    /\ UNCHANGED <<gen_kb, const_def, kb_placed, msl_ast, rpc, gen_out, n_gens>>

\* the start callback ends transform()
Start ==
    /\ rpc = "transform"
    /\ kb_placed = Len(gen_kb)
    /\ LET r == start(blocks)
       IN  IF r.err # ""
           THEN /\ rpc' = "raised"
                /\ gen_out' = [status |-> "raised", err |-> r.err, text |-> TStr("")]
                /\ msl_ast' = NoTree
           ELSE /\ rpc' = "started"
                /\ msl_ast' = r.tree
                /\ UNCHANGED gen_out
    /\ UNCHANGED <<gen_kb, const_def, kb_placed, rl_rules, blocks, template_info,
                   n_blocks, n_gens>>

\* the rest of translate() and the return of generate() (line 23)
Translate ==
    /\ rpc = "started"
    /\ LET r == translate(msl_ast, template_info)
       IN  /\ template_info' = r.info
           /\ IF r.err # ""
              THEN /\ rpc' = "raised"
                   /\ gen_out' = [status |-> "raised", err |-> r.err, text |-> TStr("")]
              ELSE /\ rpc' = "done"
                   /\ gen_out' = [status |-> "returned", err |-> "",
                                  text |-> TCatAll(<<r.dependency_import, const_def,
                                                     r.automaton_def>>)]
    /\ UNCHANGED <<gen_kb, const_def, kb_placed, rl_rules, blocks, msl_ast, n_blocks, n_gens>>

NextGen ==
    /\ \/ \E prog \in GenKBProgs : GenerateKB(prog)
       \/ TransformKbBlock
       \/ \E guard \in Guards, stmts \in {<<>>} \cup SeqsUpTo(CheckStmts, MaxChecks) :
              TransformRuleBlock(guard, stmts)
       \/ Start
       \/ Translate
    /\ UNCHANGED <<kbvars, fvars>>

----------------------------------------------------------------------------
\* The specifications

\* no single method call is under way
FnIdle ==
    /\ fn_pc = "idle"
    /\ fn_in = <<>>
    /\ fn_out = <<>>

Init == KBInit /\ RInit /\ FnIdle

\* the knowledge base interpreter on its own
SpecKB == Init /\ [][NextKB]_vars

NextKBSerial ==
    \/ NextKB
    \/ VisitAgain /\ UNCHANGED <<rvars, fvars>>

\* one knowledge base interpreter used for several inputs in series
SpecKBSerial == Init /\ [][NextKBSerial]_vars

\* Programs of up to MaxSharedEntries entries over arrays and references to
\* them: an item may be initialised with the array of an earlier block
SharedExprs ==
    {Tree("array", <<Tok("NUMBER", <<"1">>)>>), Tree("array", <<Tok("NUMBER", <<"2">>)>>)}
    \cup RefExprs

SharedBlockBegin(name) ==
    /\ n_entries < MaxSharedEntries
    /\ EnterBlock(name)

SharedInit(k_name, expr) ==
    /\ n_entries < MaxSharedEntries
    /\ EntryStep("init", k_name, expr, "")

SharedAlt(k_name, k_func, expr) ==
    /\ n_entries < MaxSharedEntries
    /\ EntryStep(k_func, k_name, expr, k_func)

NextKBShared ==
    /\ \/ VisitStart
       \/ \E name \in KBNames : SharedBlockBegin(name)
       \/ \E k_name \in ItemNames, expr \in SharedExprs : SharedInit(k_name, expr)
       \/ \E k_name \in ItemNames, k_func \in {"add", "del"}, expr \in SharedExprs :
              SharedAlt(k_name, k_func, expr)
       \/ BlockEnd
       \/ StartReturn
    /\ UNCHANGED <<rvars, fvars>>

SpecKBShared == Init /\ [][NextKBShared]_vars

\* the code generator
SpecGen == Init /\ [][NextGen]_vars

----------------------------------------------------------------------------
\* One visit of an arithmetic expression of a knowledge definition

\* string literals: decimal, hexadecimal (upper case, lowered by string()),
\* and strings that are no number
HexLit == <<"0", "x", "A">>

ArithStrs ==
    {IntToStr(MaxInt), HexLit, <<"b", "a", "r">>, <<"3", ".", "0">>, <<"0", "x">>}

StringOperands == {Tree("string", <<Tok("STRING", Quote(cs))>>) : cs \in ArithStrs}

\* MaxInt - "MaxInt": an operand that evaluates to 0
ZeroOperand ==
    Tree("term", <<Tree("number", <<Tok("NUMBER", IntToStr(MaxInt))>>), Tok("MINUS", <<"-">>),
                   Tree("string", <<Tok("STRING", Quote(IntToStr(MaxInt)))>>)>>)

ArithOperands == NumberExprs \cup StringOperands \cup {ZeroOperand}

TermExprs ==
    {Tree("term", <<l, Tok("OP", op), r>>) :
        l \in ArithOperands, op \in {<<"+">>, <<"-">>}, r \in ArithOperands}

FactorExprs ==
    {Tree("factor", <<l, Tok("OP", op), r>>) :
        l \in ArithOperands, op \in {<<"*">>, <<"/">>, <<"%">>}, r \in ArithOperands}

\* (the power of two hexadecimal literals is left out: it is beyond the
\* integers of the model)
PowerExprs ==
    {Tree("power", <<lr[1], lr[2]>>) :
        lr \in {x \in ArithOperands \X ArithOperands :
                  ~(x[1].data = "string" /\ x[2].data = "string"
                    /\ StripQuotes(x[1].children[1].value) = StrLower(HexLit)
                    /\ StripQuotes(x[2].children[1].value) = StrLower(HexLit))}}

ArrayItemExprs == {Tree("array_item", <<a, i>>) : a \in ArrayExprs, i \in ArithOperands}

LengthExprs == {Tree("length", <<a>>) : a \in ArrayExprs \cup NumberExprs}

\* differences of two numbers: every integer from -MaxOperand to MaxOperand
SignedOperands ==
    {Tree("term", <<Tree("number", <<Tok("NUMBER", IntToStr(m))>>), Tok("OP", <<"-">>),
                    Tree("number", <<Tok("NUMBER", IntToStr(n))>>)>>) :
        m \in 0..MaxOperand, n \in 0..MaxOperand}

\* quotients and remainders of them
DivModExprs ==
    {Tree("factor", <<l, Tok("OP", op), r>>) :
        l \in SignedOperands, op \in {<<"/">>, <<"%">>}, r \in SignedOperands}

ArithExprs ==
    TermExprs \cup FactorExprs \cup PowerExprs \cup ArrayItemExprs \cup LengthExprs
    \cup DivModExprs

ArithInit ==
    /\ KBInit
    /\ RInit
    /\ fn_pc = "ready"
    /\ fn_in \in ArithExprs
    /\ fn_out = <<>>

\* self.visit(tree) of a fresh interpreter, for each rule
VisitRule(data) ==
    /\ fn_pc = "ready"
    /\ fn_in.data = data
    /\ fn_pc' = "done"
    /\ fn_out' = Eval(fn_in, <<>>, <<>>)
    /\ UNCHANGED fn_in

VisitTerm == VisitRule("term")

VisitFactor == VisitRule("factor")

VisitPower == VisitRule("power")

VisitArrayItem == VisitRule("array_item")

VisitLength == VisitRule("length")

NextArith ==
    /\ \/ VisitTerm
       \/ VisitFactor
       \/ VisitPower
       \/ VisitArrayItem
       \/ VisitLength
    /\ UNCHANGED <<kbvars, rvars>>

\* the arithmetic rules of the knowledge base interpreter
SpecArith == ArithInit /\ [][NextArith]_vars

----------------------------------------------------------------------------
\* One condition of a rule through a new rule translator: the transformer,
\* then import_dependencies and construct_read_input on its template_info

KRef(kb, k) == Tree("knowledge_ref", <<Tok("NAME", kb), Tok("NAME", k)>>)

AddressExpr == Tree("string", <<Tok("STRING", Quote(<<"A">>))>>)

TxArgs == Tree("tx_args", <<VarRef(<<"v">>)>>)

TxBasic == Tree("tx_basic", <<Tok("FROM", N_from)>>)

TxState == Tree("tx_state", <<Tok("STATE", N_state), AddressExpr, VarRef(<<"v">>)>>)

ContractBasic == Tree("contract_basic", <<AddressExpr, Tok("NAME", <<"n", "a", "m", "e">>)>>)

ContractState == Tree("contract_state", <<AddressExpr, VarRef(<<"v">>)>>)

\* the arrays a quantifier ranges over and the values it compares with
QArrays == {VarRef(<<"x">>), TxArgs, KRef(K1, <<"a">>)}

QValues ==
    {Tree("number", <<Tok("NUMBER", IntToStr(MaxInt))>>),
     Tree("string", <<Tok("STRING", Quote(<<"5">>))>>), ContractBasic}

CompareOps == {<<"=", "=">>, <<"!", "=">>, <<"<", "=">>, <<">", "=">>, <<"<">>, <<">">>}

CompareConds ==
    {Tree("compare_expr", <<a, Tok("OP", op), v>>) : a \in QArrays, op \in CompareOps, v \in QValues}

MemberConds ==
    {Tree("membership", <<a, r>>) : a \in QArrays, r \in {KRef(K1, <<"a">>), KRef(K2, <<"b">>)}}

QCounts ==
    {Tree("number", <<Tok("NUMBER", IntToStr(MaxInt))>>),
     Tree("string", <<Tok("STRING", Quote(IntToStr(MaxInt)))>>)}

Quantifiers ==
    {Tree(q, <<n, c>>) : q \in {"at_least", "at_most"}, n \in QCounts,
                         c \in CompareConds \cup MemberConds}
    \cup {Tree(q, <<c>>) : q \in {"any_item", "all_items"}, c \in CompareConds \cup MemberConds}

\* operands with and without the transaction and the contract
Attrs == {VarRef(<<"g">>), TxBasic, TxState, TxArgs, ContractBasic, ContractState}

PlainConds ==
    {Tree("compare_expr", <<l, Tok("OP", op), r>>) :
        l \in Attrs, op \in {<<"=", "=">>, <<"<">>}, r \in Attrs}
    \cup {Tree("and_expr", <<l, r>>) : l \in Attrs, r \in Attrs}

\* literals as operands: a number, a decimal, a hexadecimal and another string
LiteralOperands ==
    {Tree("number", <<Tok("NUMBER", IntToStr(MaxInt))>>),
     Tree("string", <<Tok("STRING", Quote(<<"5">>))>>),
     Tree("string", <<Tok("STRING", Quote(HexLit))>>), AddressExpr}

\* arithmetic over literals and an array item with a literal index
ArithOverLiterals ==
    {Tree(d[1], <<l, Tok("OP", d[2]), r>>) :
        d \in {<<"term", <<"+">>>>, <<"factor", <<"*">>>>}, l \in LiteralOperands,
        r \in LiteralOperands}
    \cup {Tree("power", <<l, r>>) : l \in LiteralOperands, r \in LiteralOperands}
    \cup {Tree("array_item", <<VarRef(<<"x">>), l>>) : l \in LiteralOperands}

\* comparisons over them, and quantifiers whose bound is a string
LiteralConds ==
    {Tree("compare_expr", <<l, Tok("OP", op), r>>) :
        l \in LiteralOperands \cup ArithOverLiterals, op \in {<<"=", "=">>, <<"<">>},
        r \in LiteralOperands}
    \cup {Tree(q, <<AddressExpr, c>>) : q \in {"at_least", "at_most"}, c \in MemberConds}

CondInit ==
    /\ KBInit
    /\ RInit
    /\ fn_pc = "ready"
    /\ fn_in \in Quantifiers \cup PlainConds \cup LiteralConds
    /\ fn_out = <<>>

\* transform(condition) of a new builder, then lines 398-399 of translate()
TranslateCondition(data) ==
    /\ fn_pc = "ready"
    /\ fn_in.data = data
    /\ fn_pc' = "done"
    /\ LET info == ApplyMarks(TemplateInfoReset, TransformMarks(fn_in))
       IN  fn_out' = [tree |-> Transform(fn_in), info |-> info,
                      dependency_import |-> import_dependencies(info),
                      read_input |-> construct_read_input(info)]
    /\ UNCHANGED fn_in

TranslateAtLeast == TranslateCondition("at_least")

TranslateAtMost == TranslateCondition("at_most")

TranslateAnyItem == TranslateCondition("any_item")

TranslateAllItems == TranslateCondition("all_items")

TranslateCompare == TranslateCondition("compare_expr")

TranslateAnd == TranslateCondition("and_expr")

NextCond ==
    /\ \/ TranslateAtLeast
       \/ TranslateAtMost
       \/ TranslateAnyItem
       \/ TranslateAllItems
       \/ TranslateCompare
       \/ TranslateAnd
    /\ UNCHANGED <<kbvars, rvars>>

\* one condition through the rule translator
SpecCond == CondInit /\ [][NextCond]_vars

----------------------------------------------------------------------------
\* One expression tree through the serializer (SpecSer)

\* the operators of the binary nodes that carry an operator token
SerOperators ==
    {<<"mul_expr", <<"*">>>>, <<"mul_expr", <<"/">>>>, <<"add_expr", <<"+">>>>,
     <<"add_expr", <<"-">>>>, <<"equality_expr", <<"=", "=">>>>, <<"compare_expr", <<"<">>>>}

\* binary nodes over the operands l and r
BinaryNodes(l, r) ==
    {Tree(o[1], <<l, Tok("OP", o[2]), r>>) : o \in SerOperators}
    \cup {Tree(d, <<l, r>>) : d \in {"power_expr", "and_expr", "or_expr"}}

\* an operand: a variable, its negation, or a binary node over variables
SerOperand(x, y) ==
    {VarRef(<<x>>), Tree("not_expr", <<VarRef(<<x>>)>>)}
    \cup BinaryNodes(VarRef(<<x>>), VarRef(<<y>>))

SerExprs ==
    UNION {BinaryNodes(l, r) : l \in SerOperand("a", "b"), r \in SerOperand("c", "d")}
    \cup {Tree("not_expr", <<l>>) : l \in SerOperand("a", "b")}

SerInit ==
    /\ KBInit
    /\ RInit
    /\ fn_pc = "ready"
    /\ fn_in \in SerExprs
    /\ fn_out = <<>>

\* serializer.visit(tree) for a tree whose root is a data node
Serialize(data) ==
    /\ fn_pc = "ready"
    /\ fn_in.data = data
    /\ fn_pc' = "done"
    /\ fn_out' = SerVisit(fn_in)
    /\ UNCHANGED fn_in

SerializePower == Serialize("power_expr")

SerializeMul == Serialize("mul_expr")

SerializeAdd == Serialize("add_expr")

SerializeEquality == Serialize("equality_expr")

SerializeCompare == Serialize("compare_expr")

SerializeNot == Serialize("not_expr")

SerializeAnd == Serialize("and_expr")

SerializeOr == Serialize("or_expr")

NextSer ==
    /\ \/ SerializePower
       \/ SerializeMul
       \/ SerializeAdd
       \/ SerializeEquality
       \/ SerializeCompare
       \/ SerializeNot
       \/ SerializeAnd
       \/ SerializeOr
    /\ UNCHANGED <<kbvars, rvars>>

SpecSer == SerInit /\ [][NextSer]_vars

----------------------------------------------------------------------------
\* MslTypeInference.  The trees of the model have no array node and no call
\* of reglang.count; the rules for them are left out.

\* the values of a kb_dict handed to the checker: lists carry their elements
KInt(n) == [kind |-> "int", i |-> n, s |-> <<>>, items |-> <<>>]

KStr(cs) == [kind |-> "str", i |-> 0, s |-> cs, items |-> <<>>]

KList(items) == [kind |-> "list", i |-> 0, s |-> <<>>, items |-> items]

\* {f"{kb_name}_{k_name}": knowledge ...} of lines 38-42 (se.py 36-40): a
\* dict, so a key built a second time keeps its place and takes the new value
_build_knowledge_consts(kbs) ==
    LET OfKb[q \in 0..Len(kbs)] ==
            IF q = 0 THEN <<>>
            ELSE LET OfItem[p \in 0..Len(kbs[q].v)] ==
                         IF p = 0 THEN OfKb[q - 1]
                         ELSE DictUpdate(OfItem[p - 1],
                                         kbs[q].k \o <<"_">> \o kbs[q].v[p].k, kbs[q].v[p].v)
                 IN  OfItem[Len(kbs[q].v)]
    IN  OfKb[Len(kbs)]

_get_knowledge_type(knowledge) ==
    CASE knowledge.kind = "int" -> "int"
      [] knowledge.kind = "str" -> "string"
      [] knowledge.kind = "list" ->
            IF knowledge.items[1].kind = "int" THEN "int[]" ELSE "string[]"

\* self.types.get(tree, default)
TypesGet(types, tree, default) == IF DictHas(types, tree) THEN DictGet(types, tree) ELSE default

\* the result of a visit: the type returned, the type map, the exception
InferRes(ty, types, err) == [ty |-> ty, types |-> types, err |-> err]

\* knowledge_type[:-2]
ElementType(array_type) ==
    CASE array_type = "int[]" -> "int"
      [] array_type = "string[]" -> "string"
      [] array_type = "bool[]" -> "bool"
      [] array_type = "any[]" -> "any"
      [] OTHER -> "unkno"

\* visit(t) of the type inference with the type map as it is; consts is the
\* dict of the knowledge constants
RECURSIVE Infer(_, _, _)
Infer(t, types, consts) ==
    LET ch == t.children
        \* operands forced to the type ty, then visited left to right
        Forced(left, right, ty, result) ==
            LET forced == DictUpdate(DictUpdate(types, left, ty), right, ty)
                l == Infer(left, forced, consts)
                r == IF l.err # "" THEN l ELSE Infer(right, l.types, consts)
            IN  InferRes(result, r.types, r.err)
        arguments == ch[Len(ch)].children
        func_name == ch[1].value
    IN  CASE t.data = "not_expr" ->
                LET r == Infer(ch[1], DictUpdate(types, ch[1], "bool"), consts)
                IN  InferRes("bool", r.types, r.err)
          [] t.data \in {"and_expr", "or_expr"} -> Forced(ch[1], ch[2], "bool", "bool")
          [] t.data = "compare_expr" -> Forced(ch[1], ch[3], "int", "bool")
          [] t.data \in {"add_expr", "mul_expr"} -> Forced(ch[1], ch[3], "int", "int")
          [] t.data = "power_expr" -> Forced(ch[1], ch[2], "int", "int")
          [] t.data = "equality_expr" ->
                LET l == Infer(ch[1], types, consts)
                    r == IF l.err # "" THEN l ELSE Infer(ch[3], l.types, consts)
                    both(ty) == DictUpdate(DictUpdate(r.types, ch[1], ty), ch[3], ty)
                IN  IF r.err # "" THEN InferRes("bool", r.types, r.err)
                    ELSE IF l.ty = "int" \/ r.ty = "int" THEN InferRes("bool", both("int"), "")
                    ELSE IF l.ty = "string" \/ r.ty = "string"
                    THEN InferRes("bool", both("string"), "")
                    ELSE IF ~(l.ty = r.ty /\ r.ty = "unknown")
                    THEN InferRes("bool", r.types, "AssertionError")
                    ELSE InferRes("bool", both("int"), "")
          [] t.data = "func_call" ->
                IF func_name = N_length
                THEN LET a == Infer(arguments[1], types, consts)
                         array_type == IF a.ty \in {"int[]", "string[]"} THEN a.ty ELSE "any[]"
                         types2 == DictUpdate(a.types, arguments[1], array_type)
                     IN  IF a.err # "" THEN a
                         ELSE InferRes(TypesGet(types2, t, "int"), types2, "")
                ELSE IF func_name = F_count_member
                THEN IF arguments[1].data # "var_ref" THEN InferRes("", types, "AssertionError")
                     ELSE LET k == Infer(arguments[1], types, consts)
                              types2 == DictUpdate(k.types, arguments[2], k.ty)
                              a == Infer(arguments[2], types2, consts)
                          IN  IF k.ty \notin {"int[]", "string[]"}
                              THEN InferRes("", k.types, "AssertionError")
                              ELSE IF a.err # "" THEN a
                              ELSE IF ~(a.ty = k.ty \/ arguments[2].data = "getitem")
                              THEN InferRes("", a.types, "AssertionError")
                              ELSE InferRes(TypesGet(a.types, t, "int"), a.types, "")
                ELSE IF func_name = F_contains
                THEN IF arguments[1].data # "var_ref" THEN InferRes("", types, "AssertionError")
                     ELSE LET k == Infer(arguments[1], types, consts)
                              types2 == DictUpdate(k.types, arguments[2], ElementType(k.ty))
                              a == Infer(arguments[2], types2, consts)
                          IN  IF k.ty \notin {"int[]", "string[]"}
                              THEN InferRes("", k.types, "AssertionError")
                              ELSE IF a.err # "" THEN a
                              ELSE InferRes(TypesGet(a.types, t, "bool"), a.types, "")
                ELSE IF func_name \notin {F_count_eq, F_count_neq, F_count_le, F_count_ge,
                                          F_count_lt, F_count_gt}
                THEN InferRes("", types, "AssertionError")
                ELSE LET a == Infer(arguments[1], types, consts)
                         e == IF a.err # "" THEN a ELSE Infer(arguments[2], a.types, consts)
                         types2 ==
                             IF e.ty \in {"int", "string"}
                             THEN DictUpdate(DictUpdate(e.types, arguments[1], e.ty \o "[]"),
                                             arguments[2], e.ty)
                             ELSE DictUpdate(DictUpdate(e.types, arguments[1], a.ty),
                                             arguments[2], ElementType(a.ty))
                     IN  IF e.err # "" THEN e
                         ELSE IF ~(e.ty \in {"int", "string"} \/ a.ty \in {"int[]", "string[]"})
                         THEN InferRes("", e.types, "AssertionError")
                         ELSE InferRes(TypesGet(types2, t, "int"), types2, "")
          [] t.data = "var_ref" ->
                LET var_type == IF DictHas(consts, ch[1].value)
                                THEN _get_knowledge_type(DictGet(consts, ch[1].value))
                                ELSE "unknown"
                IN  InferRes(TypesGet(types, t, var_type), types, "")
          [] t.data = "getitem" ->
                IF ch[2].data # "string"
                THEN LET r == Infer(ch[2], DictUpdate(types, ch[2], "int"), consts)
                     IN  InferRes(TypesGet(r.types, t, "unknown"), r.types, r.err)
                ELSE InferRes(TypesGet(types, t, "unknown"), types, "")
          [] t.data = "getattr" ->
                LET obj == ch[1]
                    attr_name == Flat(ch[2].value)
                IN  IF ch[2].type # "NAME" THEN InferRes("", types, "AssertionError")
                    ELSE IF attr_name = "value" /\ obj.data = "var_ref"
                            /\ obj.children[1].value = N_output
                    THEN InferRes("int", types, "")
                    ELSE IF attr_name \in {"from", "to", "function"} /\ obj.data = "var_ref"
                            /\ obj.children[1].value = N_tx
                    THEN InferRes("string", types, "")
                    ELSE IF attr_name \in {"name", "owner"} /\ obj.data = "getitem"
                            /\ obj.children[1].data = "var_ref"
                            /\ obj.children[1].children[1].value = N_contract
                    THEN InferRes("string", types, "")
                    ELSE InferRes(TypesGet(types, t, "unknown"), types, "")
          [] t.data \in {"const_true", "const_false"} -> InferRes("bool", types, "")
          [] t.data = "number" -> InferRes("int", types, "")
          [] t.data = "string" -> InferRes("string", types, "")

\* the conditions of an assign_stmt: the guard and the conditions down the
\* chain of the then branch (type_inference.py 77-84, se.py 94-100)
RECURSIVE ChainConditions(_)
ChainConditions(candidate) ==
    IF candidate.data = "conditional_expr"
    THEN <<candidate.children[1]>> \o ChainConditions(candidate.children[3])
    ELSE <<>>

\* the loop `for cond in conditions` of MslTypeInference.transition_body
RECURSIVE InferConditions(_, _, _)
InferConditions(conditions, types, consts) ==
    IF conditions = <<>> THEN InferRes("", types, "")
    ELSE LET r == Infer(conditions[1], DictUpdate(types, conditions[1], "bool"), consts)
         IN  IF r.err # "" THEN r ELSE InferConditions(Tail(conditions), r.types, consts)

\* MslTypeInference.transition_body over the statements stmts
RECURSIVE mti_transition_body(_, _, _)
mti_transition_body(stmts, types, consts) ==
    IF stmts = <<>> THEN InferRes("", types, "")
    ELSE IF stmts[1].data # "assign_stmt" THEN mti_transition_body(Tail(stmts), types, consts)
    ELSE LET output_value == stmts[1].children[1]
             cond_value == stmts[1].children[3]
             guard == cond_value.children[1]
             then_value == cond_value.children[2]
             else_value == cond_value.children[3]
             types2 == DictUpdate(DictUpdate(DictUpdate(DictUpdate(DictUpdate(
                           types, output_value, "int"), cond_value, "int"), guard, "bool"),
                           then_value, "int"), else_value, "int")
             r == InferConditions(<<guard>> \o ChainConditions(then_value), types2, consts)
         IN  IF r.err # "" THEN r ELSE mti_transition_body(Tail(stmts), r.types, consts)

----------------------------------------------------------------------------
\* RuleSatChecker: the sort of the term built for a node

\* _get_symbol_sort; "" when its assert fails
_get_symbol_sort(symbol_type) ==
    CASE symbol_type = "int" -> "Int"
      [] symbol_type = "string" -> "String"
      [] symbol_type = "bool" -> "Bool"
      [] symbol_type = "int[]" -> "Seq(Int)"
      [] symbol_type = "string[]" -> "Seq(String)"
      [] symbol_type = "bool[]" -> "Seq(Bool)"
      [] OTHER -> ""

SeqSorts == {"Seq(Int)", "Seq(String)", "Seq(Bool)"}

\* the sort of the elements of a sequence sort
ElementSort(sort) ==
    CASE sort = "Seq(Int)" -> "Int"
      [] sort = "Seq(String)" -> "String"
      [] sort = "Seq(Bool)" -> "Bool"

\* the sort of _const2term(const)
_const2term(const) ==
    CASE const.kind = "int" -> "Int"
      [] const.kind = "str" -> "String"
      [] const.kind = "list" ->
            IF const.items[1].kind = "int" THEN "Seq(Int)" ELSE "Seq(String)"

\* the result of a visit: the sort of the term, the symbols declared so far
\* (name to sort), the terms built so far (node, sort), the exception
TermRes(sort, symbols, built, err) ==
    [sort |-> sort, symbols |-> symbols, built |-> built, err |-> err]

\* self.symbols.setdefault(name, symbol): the symbol already kept for the
\* name, else the new one
SetDefault(symbols, name, sort) ==
    IF DictHas(symbols, name) THEN symbols ELSE DictUpdate(symbols, name, sort)

\* visit(t) of the checker; a term the solver refuses for its sorts ends the
\* visit with SolverError
RECURSIVE Lower(_, _, _, _, _)
Lower(t, types, consts, symbols, built) ==
    LET ch == t.children
        Done(sort, syms, blt) == TermRes(sort, syms, blt \cup {<<t, sort>>}, "")
        Fail(r, exc) == TermRes("", r.symbols, r.built, exc)
        Both(left, right) ==
            LET l == Lower(left, types, consts, symbols, built)
                r == IF l.err # "" THEN l ELSE Lower(right, types, consts, l.symbols, l.built)
            IN  [l |-> l, r |-> r]
        Symbol(name, sort, syms, blt) ==
            LET kept == SetDefault(syms, name, sort)
            IN  Done(DictGet(kept, name), kept, blt)
        start_res == TermRes("", symbols, built, "")
    IN  CASE t.data = "not_expr" ->
                LET r == Lower(ch[1], types, consts, symbols, built)
                IN  IF r.err # "" THEN r
                    ELSE IF r.sort # "Bool" THEN Fail(r, "AssertionError")
                    ELSE Done("Bool", r.symbols, r.built)
          [] t.data \in {"and_expr", "or_expr"} ->
                LET b == Both(ch[1], ch[2])
                IN  IF b.r.err # "" THEN b.r
                    ELSE IF ~(b.l.sort = b.r.sort /\ b.r.sort = "Bool")
                    THEN Fail(b.r, "AssertionError")
                    ELSE Done("Bool", b.r.symbols, b.r.built)
          [] t.data = "compare_expr" ->
                LET b == Both(ch[1], ch[3])
                IN  IF b.r.err # "" THEN b.r
                    ELSE IF b.l.sort # b.r.sort THEN Fail(b.r, "AssertionError")
                    ELSE IF b.l.sort # "Int" THEN Fail(b.r, "SolverError")
                    ELSE Done("Bool", b.r.symbols, b.r.built)
          [] t.data = "equality_expr" ->
                LET b == Both(ch[1], ch[3])
                IN  IF b.r.err # "" THEN b.r
                    ELSE IF b.l.sort # b.r.sort THEN Fail(b.r, "AssertionError")
                    ELSE Done("Bool", b.r.symbols, b.r.built)
          [] t.data \in {"add_expr", "mul_expr", "power_expr"} ->
                LET b == Both(ch[1], ch[Len(ch)])
                IN  IF b.r.err # "" THEN b.r
                    ELSE IF b.l.sort # b.r.sort THEN Fail(b.r, "AssertionError")
                    ELSE IF b.l.sort # "Int" THEN Fail(b.r, "SolverError")
                    ELSE Done("Int", b.r.symbols, b.r.built)
          [] t.data \in {"const_true", "const_false"} -> Done("Bool", symbols, built)
          [] t.data = "number" -> Done("Int", symbols, built)
          [] t.data = "string" -> Done("String", symbols, built)
          [] t.data = "func_call" ->
                LET args == ch[Len(ch)].children
                    func_name == ch[1].value
                    first == Lower(args[1], types, consts, symbols, built)
                    b == IF Len(args) = 1 \/ first.err # "" THEN first
                         ELSE Lower(args[2], types, consts, first.symbols, first.built)
                IN  IF b.err # "" THEN b
                    ELSE IF func_name = N_length
                    THEN IF first.sort \in SeqSorts THEN Done("Int", b.symbols, b.built)
                         ELSE Fail(b, "SolverError")
                    ELSE IF func_name = F_contains
                    THEN IF first.sort \in SeqSorts /\ ElementSort(first.sort) = b.sort
                         THEN Done("Bool", b.symbols, b.built)
                         ELSE Fail(b, "SolverError")
                    ELSE IF func_name \in {F_count_member, F_count_le, F_count_ge, F_count_lt,
                                           F_count_gt, F_count_eq, F_count_neq}
                    THEN Symbol(Ser(t), "Int", b.symbols, b.built)
                    ELSE Fail(b, "AssertionError")
          [] t.data = "var_ref" ->
                IF DictHas(consts, ch[1].value)
                THEN Done(_const2term(DictGet(consts, ch[1].value)), symbols, built)
                ELSE IF ~DictHas(types, t) THEN Fail(start_res, "KeyError")
                ELSE IF _get_symbol_sort(DictGet(types, t)) = ""
                THEN Fail(start_res, "AssertionError")
                ELSE Symbol(TokText(ch[1]), _get_symbol_sort(DictGet(types, t)), symbols, built)
          [] t.data = "getitem" ->
                IF ~DictHas(types, t) THEN Fail(start_res, "KeyError")
                ELSE IF _get_symbol_sort(DictGet(types, t)) = ""
                THEN Fail(start_res, "AssertionError")
                ELSE IF ch[2].data # "string"
                THEN LET index_term == Lower(ch[2], types, consts, symbols, built)
                         seq_sort == _get_symbol_sort(DictGet(types, t) \o "[]")
                         kept == SetDefault(index_term.symbols, Ser(ch[1]), seq_sort)
                         seq_symbol == DictGet(kept, Ser(ch[1]))
                     IN  IF index_term.err # "" THEN index_term
                         ELSE IF index_term.sort # "Int" THEN Fail(index_term, "AssertionError")
                         ELSE IF DictGet(types, t) \notin {"int", "string", "bool"}
                         THEN Fail(index_term, "AssertionError")
                         ELSE IF seq_symbol \notin SeqSorts
                         THEN TermRes("", kept, index_term.built, "SolverError")
                         ELSE Done(ElementSort(seq_symbol), kept, index_term.built)
                ELSE Symbol(Ser(t), _get_symbol_sort(DictGet(types, t)), symbols, built)
          [] t.data = "getattr" ->
                IF ~DictHas(types, t) THEN Fail(start_res, "KeyError")
                ELSE IF _get_symbol_sort(DictGet(types, t)) = ""
                THEN Fail(start_res, "AssertionError")
                ELSE Symbol(Ser(t), _get_symbol_sort(DictGet(types, t)), symbols, built)

\* negated_expr that wraps a not_expr too
negated_expr_always_wraps(expr) == Tree("not_expr", <<expr>>)

\* negated_expr of RuleSatChecker.transition_body
negated_expr(expr) ==
    IF expr.data = "not_expr" THEN expr.children[1] ELSE Tree("not_expr", <<expr>>)

\* visit of the premise and of the negated conditions, in this order
RECURSIVE LowerAll(_, _, _, _, _), TermBuilt(_, _, _, _)
LowerAll(exprs, types, consts, symbols, built) ==
    IF exprs = <<>> THEN TermRes("Bool", symbols, built, "")
    ELSE TermBuilt(Lower(exprs[1], types, consts, symbols, built), Tail(exprs), types, consts)

\* the term of one of them has been built with the result r: the formula
\* of lines 107-117 takes Boolean terms
TermBuilt(r, exprs, types, consts) ==
    IF r.err # "" THEN r
    ELSE IF r.sort # "Bool" THEN TermRes("", r.symbols, r.built, "SolverError")
    ELSE LowerAll(exprs, types, consts, r.symbols, r.built)

\* the loop over the assign_stmts of RuleSatChecker.transition_body
RECURSIVE LowerStmts(_, _, _, _, _), StmtLowered(_, _, _, _)
LowerStmts(stmts, types, consts, symbols, built) ==
    IF stmts = <<>> THEN TermRes("", symbols, built, "")
    ELSE IF stmts[1].data # "assign_stmt"
    THEN LowerStmts(Tail(stmts), types, consts, symbols, built)
    ELSE LET cond_expr == stmts[1].children[3]
             premise == cond_expr.children[1]
             conditions == ChainConditions(cond_expr.children[2])
             negated_conditions == [p \in 1..Len(conditions) |-> negated_expr(conditions[p])]
         IN  StmtLowered(LowerAll(<<premise>> \o negated_conditions, types, consts, symbols,
                                  built),
                         Tail(stmts), types, consts)

\* the formula of a statement has been built with the result r
StmtLowered(r, stmts, types, consts) ==
    IF r.err # "" THEN r ELSE LowerStmts(stmts, types, consts, r.symbols, r.built)

\* solver.mkTerm(kind, *args), and the term visit builds for a node that is
\* no not_expr, and_expr or or_expr
mkTerm(kind, args) == [kind |-> kind, args |-> args, node |-> <<>>]

TermFor(node) == [kind |-> "TERM", args |-> <<>>, node |-> node]

\* the term of visit(t) down to the terms of the nodes below its Boolean
\* operators (not_expr, and_expr, or_expr of lines 126-148)
RECURSIVE TermOf(_)
TermOf(t) ==
    CASE t.data = "not_expr" -> mkTerm("NOT", <<TermOf(t.children[1])>>)
      [] t.data = "and_expr" -> mkTerm("AND", <<TermOf(t.children[1]), TermOf(t.children[2])>>)
      [] t.data = "or_expr" -> mkTerm("OR", <<TermOf(t.children[1]), TermOf(t.children[2])>>)
      [] OTHER -> TermFor(t)

\* rule_formulae at the end of the loop of lines 88-119
RECURSIVE rule_formulae(_)
rule_formulae(stmts) ==
    IF stmts = <<>> THEN <<>>
    ELSE IF stmts[1].data # "assign_stmt" THEN rule_formulae(Tail(stmts))
    ELSE LET cond_expr == stmts[1].children[3]
             premise == cond_expr.children[1]
             conditions == ChainConditions(cond_expr.children[2])
             negated_condition_terms ==
                 [p \in 1..Len(conditions) |-> TermOf(negated_expr(conditions[p]))]
             conclusion_term ==
                 IF Len(negated_condition_terms) = 1 THEN negated_condition_terms[1]
                 ELSE mkTerm("AND", negated_condition_terms)
         IN  <<mkTerm("AND", <<TermOf(premise), conclusion_term>>)>>
                 \o rule_formulae(Tail(stmts))

\* the loop of lines 88-119 has ended with the result lowered: when no visit
\* has raised, every formula is asserted and checkSat is called (121-124)
TermsBuilt(lowered, types, stmts) ==
    [types |-> types, built |-> lowered.built, err |-> lowered.err,
     asserted |-> IF lowered.err = "" THEN rule_formulae(stmts) ELSE <<>>,
     check_sat |-> IF lowered.err = "" THEN 1 ELSE 0]

\* lines 85-86 done with the result inferred: the terms of the statements
TypesInferred(inferred, stmts, consts) ==
    IF inferred.err # ""
    THEN [types |-> inferred.types, built |-> {}, err |-> inferred.err,
          asserted |-> <<>>, check_sat |-> 0]
    ELSE TermsBuilt(LowerStmts(stmts, inferred.types, consts, <<>>, {}), inferred.types, stmts)

\* rsc.visit(msl_ast) of a checker whose self.mti.types is mti_types: _reset
\* empties the checker's types and symbols and the solver's assertions, and
\* the type inference goes on from the map it holds
rsc_transition_body(mti_types, kbs, ast) ==
    TypesInferred(mti_transition_body(ast.children, mti_types, _build_knowledge_consts(kbs)),
                  ast.children, _build_knowledge_consts(kbs))

\* RuleSatChecker(kb_dict).visit(msl_ast): the type map, the terms built and
\* the exception raised
sat_transition_body(kbs, ast) == rsc_transition_body(<<>>, kbs, ast)

----------------------------------------------------------------------------
\* One rule through the satisfiability checker (SpecSat)

\* the kb_dict of knowledgebase k1 { knowledge a = [1, 2]; knowledge b = "A"; }
SatKbDict ==
    <<[k |-> K1,
       v |-> <<[k |-> <<"a">>, v |-> KList(<<IntE(1), IntE(2)>>)],
               [k |-> <<"b">>, v |-> KStr(<<"A">>)]>>]>>

ArrayItem == Tree("array_item", <<VarRef(<<"x">>), Tree("number", <<Tok("NUMBER", <<"1">>)>>)>>)

SatOperands ==
    {VarRef(<<"x">>), Tree("number", <<Tok("NUMBER", IntToStr(MaxInt))>>), AddressExpr,
     TxBasic, ContractBasic, TxArgs, KRef(K1, <<"a">>), KRef(K1, <<"b">>), ArrayItem}

SatConds ==
    {Tree("compare_expr", <<l, Tok("OP", op), r>>) :
        l \in SatOperands, op \in {<<"=", "=">>, <<"<">>}, r \in SatOperands}
    \cup {Tree("membership", <<l, KRef(K1, <<"a">>)>>) : l \in SatOperands}
    \cup {Tree("all_items", <<c>>) :
            c \in {Tree("compare_expr", <<VarRef(<<"x">>), Tok("OP", <<"<">>), r>>) :
                      r \in SatOperands}}

SatGuards ==
    {VarRef(<<"g">>), Tree("compare_expr", <<TxBasic, Tok("OP", <<"=", "=">>), AddressExpr>>)}

\* the rules whose condition the transformer accepts
SatRules ==
    {rl \in [guard : SatGuards, kind : {"require_stmt", "prohibit_stmt"}, cond : SatConds] :
        Transform(rl.cond).data # "VisitError"}

SatInit ==
    /\ KBInit
    /\ RInit
    /\ fn_pc = "ready"
    /\ fn_in \in SatRules
    /\ fn_out = <<>>

\* rtb.transform of the rule, then RuleSatChecker(kb_dict).visit(msl_ast)
CheckRule(kind) ==
    /\ fn_pc = "ready"
    /\ fn_in.kind = kind
    /\ fn_pc' = "done"
    /\ LET stmt == Transform(Tree(kind, <<fn_in.cond>>))
           block == rule_block(Tok("NAME", <<"r">>), Transform(fn_in.guard), <<stmt>>)
       IN  fn_out' = sat_transition_body(SatKbDict, start(<<block>>).tree)
    /\ UNCHANGED fn_in

CheckRequire == CheckRule("require_stmt")

CheckProhibit == CheckRule("prohibit_stmt")

NextSat ==
    /\ \/ CheckRequire
       \/ CheckProhibit
    /\ UNCHANGED <<kbvars, rvars>>

SpecSat == SatInit /\ [][NextSat]_vars

----------------------------------------------------------------------------
\* Properties of the code generator (SpecGen)

\* the number of check statements of the j-th rule block of the program
RuleChecks(j) == Len(rl_rules[j].children) - 2

\* the conditionals of a chain, outermost first
RECURSIVE Chain(_)
Chain(c) == IF c.data = "conditional_expr" THEN <<c>> \o Chain(c.children[3]) ELSE <<>>

\* the chain of checks of the j-th statement of the transition body
ChecksOf(j) == Chain(msl_ast.children[j].children[3].children[2])

CodeLit(n) == Tree("number", <<Tok("NUMBER", IntToStr(n))>>)

HasCheckedRule == \E j \in 1..Len(rl_rules) : RuleChecks(j) >= 1

\* C1: generate() on a program that parses and has a rule with a check
\* returns one string: the imports of the used helpers, the two standard
\* imports, the constant definitions, the automaton with the statement of
\* every rule block; it does not raise.
C1_GenerateReturnsProgram ==
    (gen_out.status # "none" /\ HasCheckedRule) =>
        /\ gen_out.status = "returned"
        /\ gen_out.text =
              TCatAll(<<import_dependencies(template_info), const_def,
                        Template(construct_read_input(template_info),
                                 TIndent(Ser(Tree("rule", msl_ast.children)), "            "))>>)

\* C1 failing run: generate() raised AttributeError in translate() on a
\* program with a rule that has a check
C1_FailingRun ==
    /\ HasCheckedRule
    /\ gen_out.status = "raised"
    /\ gen_out.err = "AttributeError"

\* C2: after start, the i-th check of a rule block with N >= 1 checks has
\* the number literal B + i as its then-branch, B the base of the block (a
\* multiple of the step): distinct, increasing in source order, and no
\* placeholder 1 is left.
C2_ChecksNumberedFromBase ==
    msl_ast # NoTree =>
        \A j \in 1..Len(rl_rules) :
            RuleChecks(j) >= 1 =>
                /\ Len(ChecksOf(j)) = RuleChecks(j)
                /\ \E k \in 1..Len(rl_rules) :
                       \A i \in 1..RuleChecks(j) :
                           ChecksOf(j)[i].children[2] = CodeLit(ERROR_CODE_STEP * k + i)
                /\ \A i \in 1..RuleChecks(j) : ChecksOf(j)[i].children[2] # PlaceholderCode
                /\ \A i1, i2 \in 1..RuleChecks(j) :
                       i1 < i2 =>
                           ParseDec(ChecksOf(j)[i1].children[2].children[1].value)
                               < ParseDec(ChecksOf(j)[i2].children[2].children[1].value)

\* C2 witness: start has numbered a rule block with two checks
C2_Witness ==
    /\ msl_ast # NoTree
    /\ \E j \in 1..Len(rl_rules) : RuleChecks(j) >= 2 /\ Len(ChecksOf(j)) >= 2

\* C3: the k-th rule block of the program, empty ones counted, has base
\* 1000 * k: its checks have the codes 1000 * k + 1 .. 1000 * k + N.
C3_BaseCountsEveryBlock ==
    msl_ast # NoTree =>
        \A k \in 1..Len(rl_rules) :
            RuleChecks(k) >= 1 =>
                \A i \in 1..RuleChecks(k) :
                    ChecksOf(k)[i].children[2] = CodeLit(ERROR_CODE_STEP * k + i)

\* C3 failing run: the second rule block follows an empty one and its
\* first check has the code 1001
C3_FailingRun ==
    /\ msl_ast # NoTree
    /\ Len(rl_rules) = 2
    /\ RuleChecks(1) = 0
    /\ RuleChecks(2) >= 1
    /\ ChecksOf(2)[1].children[2] = CodeLit(ERROR_CODE_STEP + 1)

\* the condition a check statement contributes: c for prohibit c, not c for
\* require c
CheckCond(stmt) ==
    IF stmt.data = "require_stmt" THEN Tree("not_expr", <<Transform(stmt.children[1])>>)
    ELSE Transform(stmt.children[1])

\* C4: a rule block with scope g and checks s1..sN is one assign_stmt
\* output.value = g ? (c1 ? E1 : (... (cN ? EN : output.value))) : output.value
\* with ci the condition of si in source order; a rule block without checks
\* is a skip_stmt; the transition body has one statement per rule block, in
\* source order.
C4_RuleBlockLowering ==
    msl_ast # NoTree =>
        /\ msl_ast.data = "transition_body"
        /\ Len(msl_ast.children) = Len(rl_rules)
        /\ \A j \in 1..Len(rl_rules) :
               LET rb == rl_rules[j]
                   st == msl_ast.children[j]
                   n == RuleChecks(j)
               IN  IF n = 0 THEN st.data = "skip_stmt"
                   ELSE /\ st.data = "assign_stmt"
                        /\ Len(st.children) = 3
                        /\ st.children[1] = OutputValue
                        /\ st.children[2] = Tok("EQUAL", <<"=">>)
                        /\ st.children[3].data = "conditional_expr"
                        /\ st.children[3].children[1] = Transform(rb.children[2].children[1])
                        /\ st.children[3].children[3] = OutputValue
                        /\ Len(ChecksOf(j)) = n
                        /\ \A i \in 1..n :
                               /\ ChecksOf(j)[i].children[1] = CheckCond(rb.children[2 + i])
                               /\ ChecksOf(j)[i].children[2].data = "number"
                        /\ ChecksOf(j)[n].children[3] = OutputValue

\* C4 witness: a program with an empty rule block and a rule block that has
\* a require and a prohibit has been transformed
C4_Witness ==
    /\ msl_ast # NoTree
    /\ \E j \in 1..Len(rl_rules) : RuleChecks(j) = 0
    /\ \E j \in 1..Len(rl_rules) :
           /\ RuleChecks(j) = 2
           /\ rl_rules[j].children[3].data = "require_stmt"
           /\ rl_rules[j].children[4].data = "prohibit_stmt"

----------------------------------------------------------------------------
\* Properties of the knowledge base interpreter (SpecKB)

\* the last entry was an add or del that went through on item last.name
Altered(func) == kpc = "block" /\ last.op = func /\ last.err = ""

\* the list that item last.name of the block is bound to
StoredArray == heap[DictGet(kb_dict, last.name).ref]

FirstAt(xs, x) == CHOOSE p \in 1..Len(xs) : xs[p] = x /\ \A q \in 1..(p - 1) : xs[q] # x

\* C5 (the scenario): foo = [1,2,3]; foo.add(4); foo.del(2) stores [1, 3, 4]
\* and emits `const [1, 3, 4] as kb_foo;`
C5_Scenario ==
    LET foo == <<"f", "o", "o">>
        prog == <<[name |-> <<"k", "b">>,
                   entries |-> <<KbEntry(foo, "", NumArray(<<1, 2, 3>>)),
                                 KbEntry(foo, "add", NumArray(<<4>>)),
                                 KbEntry(foo, "del", NumArray(<<2>>))>>]>>
        r == RunBlocks(<<>>, <<>>, prog)
    IN  /\ r.err = ""
        /\ r.heap[DictGet(DictGet(r.collection, <<"k", "b">>), foo).ref]
               = <<IntE(1), IntE(3), IntE(4)>>
        /\ KBTranslate(r.collection, r.heap) = <<"const [1, 3, 4] as kb_foo;", "", "">>

\* C5: when the array A and the value list V have the same element kind,
\* A.add(V) keeps the elements of A in their order and appends, in the order
\* of V, each element of V that A has not; no element is added twice.
C5_AddAppendsAbsentInOrder ==
    /\ C5_Scenario
    /\ (Altered("add") /\ ~last.mismatch) =>
           LET A == last.A
               V == last.V
               R == StoredArray
               T == SubSeq(R, Len(A) + 1, Len(R))
           IN  /\ Len(R) >= Len(A)
               /\ SubSeq(R, 1, Len(A)) = A
               /\ \A p \in 1..Len(V) : ListHas(R, V[p])
               /\ \A p \in 1..Len(T) : ListHas(V, T[p]) /\ ~ListHas(A, T[p])
               /\ \A p, q \in 1..Len(T) : p < q => FirstAt(V, T[p]) < FirstAt(V, T[q])

\* C5 witness: an add of two values to an array that has one of them
C5_Witness ==
    /\ Altered("add")
    /\ ~last.mismatch
    /\ Len(last.V) = 2
    /\ \E p, q \in 1..2 : ListHas(last.A, last.V[p]) /\ ~ListHas(last.A, last.V[q])
    /\ Len(StoredArray) = Len(last.A) + 1

\* C6: after A.del(V) no element of V occurs in A any more.
C6_DelRemovesEveryOccurrence ==
    Altered("del") => \A p \in 1..Len(last.V) : ~ListHas(StoredArray, last.V[p])

\* C6 failing run: [1, 1].del(1) has left [1]
C6_FailingRun ==
    /\ Altered("del")
    /\ last.A = <<IntE(1), IntE(1)>>
    /\ last.V = <<IntE(1)>>
    /\ StoredArray = <<IntE(1)>>

\* C7: when the value list and the array disagree on the element kind, the
\* item then holds the array's elements as strings, in their order, with the
\* operation applied; after an add, every value as a string is in it.
C7_MixedKindsStoredAsStrings ==
    (kpc = "block" /\ last.op \in {"add", "del"} /\ last.err = "" /\ last.mismatch) =>
        /\ \A p \in 1..Len(StoredArray) : StoredArray[p].kind = "str"
        /\ last.op = "add" =>
               /\ Len(StoredArray) >= Len(last.A)
               /\ \A p \in 1..Len(last.A) : StoredArray[p] = PyStr(last.A[p])
               /\ \A p \in 1..Len(last.V) : ListHas(StoredArray, PyStr(last.V[p]))

\* C7 failing run: a string has been added to an array of numbers and the
\* item holds the array it held before
C7_FailingRun ==
    /\ Altered("add")
    /\ last.mismatch
    /\ last.A # <<>>
    /\ last.A[1].kind = "int"
    /\ last.V[1].kind = "str"
    /\ StoredArray = last.A

\* the entry before the last one was `knowledge X = V` and the last one is
\* `X.add(V)` with the same array V
ReAdded ==
    /\ kpc = "block"
    /\ last.op = "add"
    /\ last.prev_op = "init"
    /\ last.prev_name = last.name
    /\ last.prev_expr = last.expr
    /\ last.expr.data = "array"

\* C8: after `init X = V; alt X add V` with an array V, X and every other
\* item have the value they had after `init X = V`.
C8_ReAddIsNoOp ==
    ReAdded => /\ last.err = ""
               /\ kb_dict = last.pre_dict
               /\ heap = last.pre_heap

\* C8 witness: an array that repeats an element has been added to itself
C8_Witness ==
    /\ ReAdded
    /\ Len(last.V) = 2
    /\ last.V[1] = last.V[2]
    /\ StoredArray = last.V

\* C9: no array of a knowledge map that the interpreter returned is empty.
C9_NoEmptyArrayReturned ==
    \A q \in 1..Len(kb_result) :
        \A p \in 1..Len(kb_result[q].v) :
            kb_result[q].v[p].v.kind = "list" => heap[kb_result[q].v[p].v.ref] # <<>>

\* C9 failing run: the interpreter has returned a map with an empty array
C9_FailingRun ==
    /\ kpc = "idle"
    /\ \E q \in 1..Len(kb_result) :
           \E p \in 1..Len(kb_result[q].v) :
               /\ kb_result[q].v[p].v.kind = "list"
               /\ heap[kb_result[q].v[p].v.ref] = <<>>

\* the last entry is `knowledge X = knowledgebase(KB).ITEM` with ITEM declared
\* before it, in the block being interpreted or in a block interpreted before
RefersToEarlierItem ==
    /\ last.op = "init"
    /\ last.expr.data = "knowledge_ref"
    /\ LET kb == last.expr.children[1].value
           k == last.expr.children[2].value
       IN  \/ kb = kb_name /\ DictHas(last.pre_dict, k)
           \/ kb # kb_name /\ DictHas(kb_dict_collection, kb)
                /\ DictHas(DictGet(kb_dict_collection, kb), k)

\* C10: a reference to an item declared earlier, in the same knowledge base
\* or in an earlier one, evaluates to the item's value without raising.
C10_EarlierItemsResolve ==
    RefersToEarlierItem =>
        LET kb == last.expr.children[1].value
            k == last.expr.children[2].value
        IN  /\ last.err = ""
            /\ DictGet(kb_dict, last.name)
                   = IF kb = kb_name THEN DictGet(last.pre_dict, k)
                     ELSE DictGet(DictGet(kb_dict_collection, kb), k)

\* C10 failing run: a reference to an item declared earlier in the block
\* under interpretation has raised InterpretationError
C10_FailingRun ==
    /\ RefersToEarlierItem
    /\ last.expr.children[1].value = kb_name
    /\ last.err = "InterpretationError"
    /\ kpc = "raised"

----------------------------------------------------------------------------
\* Undefined knowledge references (SpecGen)

\* the (knowledge base, item) pairs of the knowledgebase(KB).ITEM nodes of a tree
RECURSIVE KnowledgeRefs(_)
KnowledgeRefs(t) ==
    IF IsToken(t) THEN {}
    ELSE IF t.data = "knowledge_ref" THEN {<<t.children[1].value, t.children[2].value>>}
    ELSE UNION {KnowledgeRefs(t.children[p]) : p \in 1..Len(t.children)}

\* block b of the program declares item k by one of its first n entries
DeclaresBy(prog, b, k, n) ==
    \E p \in 1..n : prog[b].entries[p].k_name = k /\ prog[b].entries[p].k_func = ""

\* item k of knowledge base kb is declared somewhere in the program
DeclaredIn(prog, kb, k) ==
    \E b \in 1..Len(prog) : prog[b].name = kb /\ DeclaresBy(prog, b, k, Len(prog[b].entries))

\* a knowledge definition refers to an item that no earlier block and no
\* earlier entry of its block declares
KbHasUndefinedRef(prog) ==
    \E b \in 1..Len(prog) :
        \E p \in 1..Len(prog[b].entries) :
            \E r \in KnowledgeRefs(prog[b].entries[p].expr) :
                /\ ~\E b0 \in 1..(b - 1) :
                       prog[b0].name = r[1]
                       /\ DeclaresBy(prog, b0, r[2], Len(prog[b0].entries))
                /\ ~(prog[b].name = r[1] /\ DeclaresBy(prog, b, r[2], p - 1))

\* a rule scope or check statement refers to an item the program does not declare
RulesHaveUndefinedRef ==
    \E j \in 1..Len(rl_rules) :
        \E r \in KnowledgeRefs(rl_rules[j]) : ~DeclaredIn(gen_kb, r[1], r[2])

----------------------------------------------------------------------------
\* String operands of arithmetic (SpecArith)

\* the text of a string literal as the interpreter sees it
LitText(t) == StripQuotes(t.children[1].value)

\* a run of decimal digits, or 0x followed by hexadecimal digits
Convertible(cs) ==
    \/ cs # <<>> /\ \A p \in 1..Len(cs) : IsDigit(cs[p])
    \/ Len(cs) > 2 /\ cs[1] = "0" /\ cs[2] = "x" /\ \A p \in 3..Len(cs) : IsHexDigit(cs[p])

\* the integer a convertible string stands for
ConvertedValue(cs) ==
    IF \A p \in 1..Len(cs) : IsDigit(cs[p]) THEN ParseDec(cs)
    ELSE ParseHex(SubSeq(cs, 3, Len(cs)))

\* the operand positions of an arithmetic rule that hold a string literal
OperandAt(t) ==
    IF t.data \in {"term", "factor"} THEN {1, 3}
    ELSE IF t.data = "power" THEN {1, 2}
    ELSE {2}

StringOperandsOf(t) == {p \in OperandAt(t) : t.children[p].data = "string"}

\* the expression with its string literals replaced by the numbers they stand for
AsNumbers(t) ==
    [t EXCEPT !.children =
        [p \in 1..Len(t.children) |->
            IF p \in StringOperandsOf(t)
            THEN Tree("number", <<Tok("NUMBER", IntToStr(ConvertedValue(LitText(t.children[p]))))>>)
            ELSE t.children[p]]]

\* C12: a string operand that is a decimal or 0x-hexadecimal numeral is used
\* as that integer; with an operand that is any other string the visit
\* raises InterpretationError and no other exception.
C12_StringOperands ==
    (fn_pc = "done" /\ fn_in.data \in {"term", "factor", "power", "array_item"}
       /\ StringOperandsOf(fn_in) # {}) =>
        IF \A p \in StringOperandsOf(fn_in) : Convertible(LitText(fn_in.children[p]))
        THEN fn_out = Eval(AsNumbers(fn_in), <<>>, <<>>)
        ELSE fn_out.err = "InterpretationError"

\* C12 failing run: "0x" + 1 has raised ValueError
C12_FailingRun ==
    /\ fn_pc = "done"
    /\ fn_in.data = "term"
    /\ fn_in.children[1].data = "string"
    /\ LitText(fn_in.children[1]) = <<"0", "x">>
    /\ fn_in.children[3].data = "number"
    /\ fn_out.err = "ValueError"

----------------------------------------------------------------------------
\* A long-lived knowledge base interpreter (SpecKBSerial)

\* the last entry is a definition by a reference to a knowledge base that
\* the input of this run has not declared
RefersToUndeclaredHere ==
    /\ last.op = "init"
    /\ last.expr.data = "knowledge_ref"
    /\ last.expr.children[1].value \notin run_names
    /\ last.expr.children[1].value # kb_name

\* C13: whatever runs came before, returned or raised, the map a run returns
\* has the knowledge bases its input declares and no other, and a reference
\* to a knowledge base that only an earlier input declared is undefined.
C13_RunsAreIndependent ==
    /\ (kpc = "idle" /\ n_runs > 0) => DictKeys(kb_result) = run_names
    /\ RefersToUndeclaredHere => last.err = "InterpretationError"

\* C13 failing run: the second run, after a run that raised, has returned
\* a map with a knowledge base that its input does not declare
C13_FailingRun ==
    /\ kpc = "idle"
    /\ n_runs = 2
    /\ \E name \in DictKeys(kb_result) : name \notin run_names

----------------------------------------------------------------------------
\* A long-lived rule translator (SpecGen)

\* translate() has been called and the transformer has passed nothing yet
TranslateBegins == rpc = "transform" /\ blocks = <<>>

\* C14: at the start of every translate call the helper flags and the
\* has_tx_var / has_contract_var flags are all false, whatever calls came
\* before, calls that raised included.
C14_FlagsClearAtStart == TranslateBegins => template_info = TemplateInfoReset

\* C14 failing run: the second call begins with has_tx_var set by the
\* first call, which raised
C14_FailingRun ==
    /\ TranslateBegins
    /\ n_gens = 2
    /\ template_info.has_tx_var

----------------------------------------------------------------------------
\* The import list (SpecGen)

\* translate() has run to its end or to an exception on the tree of start()
TranslateEnded == rpc \in {"done", "raised"} /\ msl_ast # NoTree

\* the text generate() returned has the line `import h`
Imports(h) == \E p \in 1..Len(gen_out.text) : gen_out.text[p] = "import " \o Flat(h)

\* C15: for each predefined helper h the emitted text has `import h` exactly
\* when the rule body has a call of h; a rule with the predicate
\* y in knowledgebase(k1).a emits the call reglang.contains(k1_a, y) and
\* import reglang.contains.
C15_ImportIffCall ==
    TranslateEnded =>
        \A p \in 1..Len(TemplateInfoReset.predefined_func) :
            LET h == TemplateInfoReset.predefined_func[p].k
            IN  Imports(h) <=> HasCall(msl_ast, h)

\* C15 failing run: the rule body calls reglang.contains and generate()
\* has raised, so that no import of it is emitted
C15_FailingRun ==
    /\ TranslateEnded
    /\ HasCall(msl_ast, F_contains)
    /\ ~template_info.predefined_func[1].v
    /\ gen_out.status = "raised"
    /\ gen_out.err = "AttributeError"
    /\ ~Imports(F_contains)

----------------------------------------------------------------------------
\* The read-input preamble and the lowering of quantifiers (SpecCond)

\* the condition refers to the transaction, to a contract
RECURSIVE UsesTx(_)
UsesTx(t) ==
    /\ ~IsToken(t)
    /\ \/ t.data \in {"tx_basic", "tx_state", "tx_args"}
       \/ \E p \in 1..Len(t.children) : UsesTx(t.children[p])

RECURSIVE UsesContract(_)
UsesContract(t) ==
    /\ ~IsToken(t)
    /\ \/ t.data \in {"contract_basic", "contract_state"}
       \/ \E p \in 1..Len(t.children) : UsesContract(t.children[p])

\* the preamble for the inputs xs (port, local): one request transition per
\* input, then the transition that reads them all
PreambleFor(xs) ==
    IF xs = <<>> THEN <<"        !checking -> checking = true;">>
    ELSE LET Ready[p \in 0..Len(xs)] ==
                 IF p = 0 THEN "!checking"
                 ELSE Ready[p - 1] \o " && (" \o xs[p][1] \o ".reqRead && " \o xs[p][1]
                      \o ".reqWrite)"
             Ports[p \in 1..Len(xs)] ==
                 IF p = 1 THEN xs[1][1] ELSE Ports[p - 1] \o ", " \o xs[p][1]
         IN  [p \in 1..Len(xs) |->
                 "        !checking && !" \o xs[p][1] \o ".reqRead -> " \o xs[p][1]
                 \o ".reqRead = true;"]
             \o <<"        " \o Ready[Len(xs)] \o " -> {",
                  "            sync " \o Ports[Len(xs)] \o ";">>
             \o [p \in 1..Len(xs) |->
                    "            " \o xs[p][2] \o " = " \o xs[p][1] \o ".value;"]
             \o <<"            checking = true;", "        }">>

\* C16: the preamble depends on (uses tx, uses contract) only: with neither it
\* is `!checking -> checking = true;`; otherwise a reqRead request for each
\* input referred to and one transition guarded by !checking and
\* (X.reqRead && X.reqWrite) for those inputs, which syncs their ports,
\* assigns tx and/or contract and sets checking.
C16_ReadInputPreamble ==
    fn_pc = "done" =>
        fn_out.read_input =
            PreambleFor((IF UsesTx(fn_in) THEN <<<<"tx_input", "tx">>>> ELSE <<>>)
                        \o (IF UsesContract(fn_in) THEN <<<<"contract_input", "contract">>>>
                            ELSE <<>>))

\* C16 witness: the preamble of a condition over the transaction and a contract
C16_Witness ==
    /\ fn_pc = "done"
    /\ UsesTx(fn_in)
    /\ UsesContract(fn_in)
    /\ Len(fn_out.read_input) = 8

\* the input is a quantifier (at least, at most, any, all) over a condition
\* of the given form
QuantifierOver(data) ==
    /\ fn_pc = "done"
    /\ fn_in.data \in {"at_least", "at_most", "any_item", "all_items"}
    /\ fn_in.children[Len(fn_in.children)].data = data

QCondition == fn_in.children[Len(fn_in.children)]

\* the helper for a comparison operator
HelperOf(op) ==
    F_count \o <<"_">> \o
        (CASE op = <<"=", "=">> -> <<"e", "q">>
           [] op = <<"!", "=">> -> <<"n", "e", "q">>
           [] op = <<"<", "=">> -> <<"l", "e">>
           [] op = <<">", "=">> -> <<"g", "e">>
           [] op = <<"<">> -> <<"l", "t">>
           [] op = <<">">> -> <<"g", "t">>)

CallOf(name, args) == Tree("func_call", <<Tok("NAME", name), Tree("func_arguments", args)>>)

\* the operator of the comparison a quantifier is lowered to
QOperator ==
    CASE fn_in.data = "at_most" -> <<"<", "=">>
      [] fn_in.data = "all_items" -> <<"=", "=">>
      [] OTHER -> <<">", "=">>

\* its right operand, arr the array whose elements are counted
QBound(arr) ==
    CASE fn_in.data \in {"at_least", "at_most"} ->
             Tree("number",
                  <<Tok("NUMBER", IF fn_in.children[1].data = "number"
                                  THEN fn_in.children[1].children[1].value
                                  ELSE StripQuotes(fn_in.children[1].children[1].value))>>)
      [] fn_in.data = "any_item" -> Tree("number", <<Tok("NUMBER", <<"1">>)>>)
      [] fn_in.data = "all_items" -> CallOf(N_length, <<arr>>)

\* the helper flag of name is set
FlagSet(name) == DictGet(fn_out.info.predefined_func, name)

\* C18: a quantifier over `array OP value` becomes the comparison of the call
\* reglang.count_OP(array, value) with n by >= (at least), with n by <= (at
\* most), with 1 by >= (any), with length(array) by == (all), and the flag
\* of the helper is set.
C18_QuantifierOverComparison ==
    QuantifierOver("compare_expr") =>
        LET arr == Transform(QCondition.children[1])
            val == Transform(QCondition.children[3])
            helper == HelperOf(QCondition.children[2].value)
        IN  /\ fn_out.tree.data = "compare_expr"
            /\ Len(fn_out.tree.children) = 3
            /\ fn_out.tree.children[1] = CallOf(helper, <<arr, val>>)
            /\ fn_out.tree.children[2].value = QOperator
            /\ fn_out.tree.children[3] = QBound(arr)
            /\ FlagSet(helper)

\* C18 witness: all (array <= value) has been lowered
C18_Witness ==
    /\ QuantifierOver("compare_expr")
    /\ fn_in.data = "all_items"
    /\ QCondition.children[2].value = <<"<", "=">>
    /\ fn_out.tree.children[3].data = "func_call"
    /\ FlagSet(F_count_le)

\* C19: a quantifier over `x in ref` becomes a comparison of the call
\* reglang.count_member(x, ref), and for all the right operand is length(x).
C19_QuantifierOverMembership ==
    QuantifierOver("membership") =>
        LET x == Transform(QCondition.children[1])
            ref == Transform(QCondition.children[2])
        IN  /\ fn_out.tree.data = "compare_expr"
            /\ fn_out.tree.children[1] = CallOf(F_count_member, <<x, ref>>)
            /\ fn_out.tree.children[2].value = QOperator
            /\ fn_out.tree.children[3] = QBound(x)

\* C19 failing run: all (x in knowledgebase(k1).a) has become
\* reglang.count_member(k1_a, x) == length(k1_a)
C19_FailingRun ==
    /\ QuantifierOver("membership")
    /\ fn_in.data = "all_items"
    /\ QCondition.children[1] = VarRef(<<"x">>)
    /\ QCondition.children[2] = KRef(K1, <<"a">>)
    /\ fn_out.tree.children[1]
           = CallOf(F_count_member, <<VarRef(<<"k", "1", "_", "a">>), VarRef(<<"x">>)>>)
    /\ fn_out.tree.children[3] = CallOf(N_length, <<VarRef(<<"k", "1", "_", "a">>)>>)

----------------------------------------------------------------------------
\* Reading the serializer's output back (SpecSer)

\* the words of a line of ASL: parentheses, operators, one-letter names
RECURSIVE Lex(_)
Lex(str) ==
    IF Len(str) = 0 THEN <<>>
    ELSE IF Head(str) = " " THEN Lex(Tail(str))
    ELSE IF Len(str) >= 2 /\ SubSeq(str, 1, 2) \in {"**", "==", "!=", "<=", ">=", "&&", "||"}
    THEN <<SubSeq(str, 1, 2)>> \o Lex(SubSeq(str, 3, Len(str)))
    ELSE <<Head(str)>> \o Lex(Tail(str))

\* the characters of a word
RECURSIVE CharsOf(_)
CharsOf(str) == IF Len(str) = 0 THEN <<>> ELSE <<Head(str)>> \o CharsOf(Tail(str))

\* the operator classes, tightest first, and their words
LevelName(lv) ==
    CASE lv = 1 -> "power_expr"
      [] lv = 2 -> "mul_expr"
      [] lv = 3 -> "add_expr"
      [] lv = 4 -> "equality_expr"
      [] lv = 5 -> "compare_expr"
      [] lv = 6 -> "not_expr"
      [] lv = 7 -> "and_expr"
      [] lv = 8 -> "or_expr"

LevelWords(lv) ==
    CASE lv = 1 -> {"**"}
      [] lv = 2 -> {"*", "/", "%"}
      [] lv = 3 -> {"+", "-"}
      [] lv = 4 -> {"==", "!="}
      [] lv = 5 -> {"<", "<=", ">", ">="}
      [] lv = 6 -> {}
      [] lv = 7 -> {"&&"}
      [] lv = 8 -> {"||"}

NodeOf(lv, left, word, right) ==
    IF lv \in {1, 7, 8} THEN Tree(LevelName(lv), <<left, right>>)
    ELSE Tree(LevelName(lv), <<left, Tok("OP", CharsOf(word)), right>>)

\* reading an expression of class lv or tighter from the words ws: binary
\* operators group to the left, power to the right, `!` applies to what
\* follows it up to the comparison classes
RECURSIVE ReadLevel(_, _), ReadMore(_, _, _)
ReadLevel(lv, ws) ==
    IF lv = 0
    THEN IF ws # <<>> /\ Head(ws) = "("
         THEN LET inner == ReadLevel(8, Tail(ws))
              IN  [tree |-> inner.tree, rest |-> Tail(inner.rest)]
         ELSE [tree |-> VarRef(<<Head(ws)>>), rest |-> Tail(ws)]
    ELSE IF lv = 6
    THEN IF ws # <<>> /\ Head(ws) = "!"
         THEN LET operand == ReadLevel(6, Tail(ws))
              IN  [tree |-> Tree("not_expr", <<operand.tree>>), rest |-> operand.rest]
         ELSE ReadLevel(5, ws)
    ELSE IF lv = 1
    THEN LET base == ReadLevel(0, ws)
         IN  IF base.rest # <<>> /\ Head(base.rest) = "**"
             THEN LET exponent == ReadLevel(1, Tail(base.rest))
                  IN  [tree |-> NodeOf(1, base.tree, "**", exponent.tree),
                       rest |-> exponent.rest]
             ELSE base
    ELSE LET first == ReadLevel(lv - 1, ws)
         IN  ReadMore(lv, first.tree, first.rest)

ReadMore(lv, left, ws) ==
    IF ws # <<>> /\ Head(ws) \in LevelWords(lv)
    THEN LET right == ReadLevel(lv - 1, Tail(ws))
         IN  ReadMore(lv, NodeOf(lv, left, Head(ws), right.tree), right.rest)
    ELSE [tree |-> left, rest |-> ws]

\* the tree a line of ASL stands for
ReadBack(str) == ReadLevel(8, Lex(str)).tree

\* C17: for every tree of power, mul, add, equality, compare, not, and, or
\* nodes, reading the serializer's output back with the precedence of the
\* table (binary operators grouping to the left, power to the right) gives
\* the tree that was serialized, also when a right operand is of the class
\* of its parent, as in a - (b - c) and a / (b * c).
C17_SerializerRoundTrip ==
    fn_pc = "done" =>
        /\ fn_out.type = "str"
        /\ Len(fn_out.text) = 1
        /\ ReadBack(fn_out.text[1]) = fn_in

\* C17 failing run: a - (c - d) has been serialized as `a - c - d`, which
\* reads (a - c) - d
C17_FailingRun ==
    /\ fn_pc = "done"
    /\ fn_in = Tree("add_expr",
                    <<VarRef(<<"a">>), Tok("OP", <<"-">>),
                      Tree("add_expr", <<VarRef(<<"c">>), Tok("OP", <<"-">>), VarRef(<<"d">>)>>)>>)
    /\ fn_out.text = <<"a - c - d">>
    /\ ReadBack(fn_out.text[1])
           = Tree("add_expr",
                  <<Tree("add_expr", <<VarRef(<<"a">>), Tok("OP", <<"-">>), VarRef(<<"c">>)>>),
                    Tok("OP", <<"-">>), VarRef(<<"d">>)>>)

----------------------------------------------------------------------------
\* Type inference and the terms of the checker (SpecSat)

\* the solver sort of a type: int -> Int, string -> String, bool -> Bool,
\* T[] -> Seq of T; "" for any[] and unknown, which have none
SortOfType(ty) ==
    CASE ty = "int" -> "Int"
      [] ty = "string" -> "String"
      [] ty = "bool" -> "Bool"
      [] ty = "int[]" -> "Seq(Int)"
      [] ty = "string[]" -> "Seq(String)"
      [] ty = "bool[]" -> "Seq(Bool)"
      [] OTHER -> ""

\* the node has type ty in the type map of the run
TypedAs(node, ty) == DictHas(fn_out.types, node) /\ DictGet(fn_out.types, node) = ty

\* C20: whenever the type map gives a node the type T, every term the
\* checker builds for the node has the solver sort of T, also for string
\* literals and tx/contract basic attributes that are operands of a
\* comparison.
C20_TermsHaveInferredSort ==
    fn_pc = "done" =>
        \A b \in fn_out.built :
            (DictHas(fn_out.types, b[1]) /\ SortOfType(DictGet(fn_out.types, b[1])) # "")
                => b[2] = SortOfType(DictGet(fn_out.types, b[1]))

\* C20 failing run: in `prohibit tx.from < "A"` the literal "A" has type
\* int in the type map and the checker has built a String term for it
C20_FailingRun ==
    /\ fn_pc = "done"
    /\ fn_in.cond = Tree("compare_expr", <<TxBasic, Tok("OP", <<"<">>), AddressExpr>>)
    /\ TypedAs(Transform(AddressExpr), "int")
    /\ <<Transform(AddressExpr), "String">> \in fn_out.built
    /\ <<tx_basic(Tok("FROM", N_from)), "Int">> \in fn_out.built

----------------------------------------------------------------------------
\* The tags and operators of comparison nodes (SpecCond)

\* the tree and every tree below it
RECURSIVE Subtrees(_)
Subtrees(t) ==
    IF IsToken(t) THEN {}
    ELSE {t} \cup UNION {Subtrees(t.children[p]) : p \in 1..Len(t.children)}

EqualityOperators == {<<"=", "=">>, <<"!", "=">>}

OrderOperators == {<<"<">>, <<"<", "=">>, <<">">>, <<">", "=">>}

\* C22: in the tree the rule transformer returns, a node tagged
\* equality_expr has the operator == or != and a node tagged compare_expr has
\* the operator <, <=, > or >=, for the comparisons of the input and for those
\* generated for at least, at most, any and all.
C22_TagsMatchOperators ==
    (fn_pc = "done" /\ fn_out.tree.data # "VisitError") =>
        \A n \in Subtrees(fn_out.tree) :
            /\ n.data = "equality_expr" => n.children[2].value \in EqualityOperators
            /\ n.data = "compare_expr" => n.children[2].value \in OrderOperators

\* C22 failing run: all (x < 2) has become the node
\* compare_expr(reglang.count_lt(x, 2), ==, length(x))
C22_FailingRun ==
    /\ fn_pc = "done"
    /\ fn_in.data = "all_items"
    /\ fn_in.children[1].children[1] = VarRef(<<"x">>)
    /\ fn_in.children[1].children[2].value = <<"<">>
    /\ fn_out.tree.data = "compare_expr"
    /\ fn_out.tree.children[1].children[1].value = F_count_lt
    /\ fn_out.tree.children[2].value = <<"=", "=">>
    /\ fn_out.tree.children[3] = CallOf(N_length, <<VarRef(<<"x">>)>>)

----------------------------------------------------------------------------
\* The literals of number nodes (SpecCond)

\* the input has a string literal as an operand of an arithmetic operator or
\* of a comparison, as an array index or as a quantifier bound
HasStringOperand(t) ==
    \E n \in Subtrees(t) :
        /\ n.data \in {"term", "factor", "power", "compare_expr", "array_item", "at_least",
                       "at_most"}
        /\ \E p \in 1..Len(n.children) : n.children[p].data = "string"

\* C28: every number node of the tree the rule transformer returns carries
\* a valid integer literal, for every input in which string literals are
\* operands of arithmetic operators or comparisons, array indices or
\* quantifier bounds.
C28_NumberNodesAreNumerals ==
    (fn_pc = "done" /\ fn_out.tree.data # "VisitError" /\ HasStringOperand(fn_in)) =>
        \A n \in Subtrees(fn_out.tree) :
            n.data = "number" => Convertible(n.children[1].value)

\* C28 failing run: "A" + 2 == 2 has become add_expr(number A, +, number 2)
C28_FailingRun ==
    /\ fn_pc = "done"
    /\ fn_in.data = "compare_expr"
    /\ fn_in.children[1].data = "term"
    /\ fn_in.children[1].children[1] = AddressExpr
    /\ fn_out.tree.children[1].data = "add_expr"
    /\ fn_out.tree.children[1].children[1] = Tree("number", <<Tok("NUMBER", <<"a">>)>>)

----------------------------------------------------------------------------
\* Quotient and remainder in knowledge definitions (SpecArith)

\* the integer a difference of two numbers stands for
DifferenceOf(t) == ParseDec(t.children[1].children[1].value) - ParseDec(t.children[3].children[1].value)

\* the input is a quotient or remainder of two differences
IsDivMod(t) ==
    /\ t.data = "factor"
    /\ t.children[2].value \in {<<"/">>, <<"%">>}
    /\ t.children[1].data = "term" /\ t.children[1].children[3].data = "number"
    /\ t.children[3].data = "term" /\ t.children[3].children[3].data = "number"

\* the quotient of a by b truncated toward zero: the q with a = q * b + r
\* where r is smaller than b in size and is zero or has the sign of a
Quotient(a, b) ==
    CHOOSE q \in -Abs(a)..Abs(a) :
        LET r == a - q * b
        IN  /\ Abs(r) < Abs(b)
            /\ r = 0 \/ (r > 0) = (a > 0)

\* C26: for integers a and b with b # 0, negative ones produced by
\* subtraction included, a / b evaluates to the quotient truncated toward zero
\* and a % b to the matching remainder, so that (a / b) * b + (a % b) = a.
C26_DivModTruncate ==
    (fn_pc = "done" /\ IsDivMod(fn_in) /\ DifferenceOf(fn_in.children[3]) # 0) =>
        LET a == DifferenceOf(fn_in.children[1])
            b == DifferenceOf(fn_in.children[3])
        IN  /\ fn_out.err = ""
            /\ fn_out.val.kind = "int"
            /\ fn_in.children[2].value = <<"/">> => fn_out.val.i = Quotient(a, b)
            /\ fn_in.children[2].value = <<"%">> => fn_out.val.i = a - Quotient(a, b) * b

\* C26 failing run: (0 - 3) % (2 - 0) has evaluated to 1, where the
\* quotient -1 has the remainder -1
C26_FailingRun ==
    /\ fn_pc = "done"
    /\ IsDivMod(fn_in)
    /\ fn_in.children[2].value = <<"%">>
    /\ DifferenceOf(fn_in.children[1]) = -3
    /\ DifferenceOf(fn_in.children[3]) = 2
    /\ fn_out.err = ""
    /\ fn_out.val.i = 1

----------------------------------------------------------------------------
\* What an add or del entry leaves alone (SpecKBShared)

\* the value an item holds: the elements of its list, or the scalar
ValueIn(v, h) == IF v.kind = "list" THEN h[v.ref] ELSE <<v>>

\* the last entry was an add or del on the item last.name of the block
AltEntryDone == kpc \in {"block", "raised"} /\ last.op \in {"add", "del"}

\* C27: an add or del entry on item X changes the stored value of X only;
\* every other item of the block and of the knowledge bases stored so far
\* holds the value it held before the entry, also when X was initialised with
\* a reference to another array item.
C27_AltChangesOnlyItsItem ==
    AltEntryDone =>
        /\ \A k \in DictKeys(last.pre_dict) \ {last.name} :
               ValueIn(DictGet(kb_dict, k), heap)
                   = ValueIn(DictGet(last.pre_dict, k), last.pre_heap)
        /\ \A kb \in DictKeys(kb_dict_collection) :
               \A k \in DictKeys(DictGet(kb_dict_collection, kb)) :
                   ~(kb = kb_name /\ k = last.name) =>
                       ValueIn(DictGet(DictGet(kb_dict_collection, kb), k), heap)
                           = ValueIn(DictGet(DictGet(kb_dict_collection, kb), k), last.pre_heap)

\* C27 failing run: after k1 { a = [1] } and, in k2, a = knowledgebase(k1).a,
\* the entry a.add([2]) has made k1.a hold [1, 2]
C27_FailingRun ==
    /\ AltEntryDone
    /\ kb_name = K2
    /\ last.op = "add"
    /\ last.name = <<"a">>
    /\ last.prev_expr = KRef(K1, <<"a">>)
    /\ last.A = <<IntE(1)>>
    /\ DictHas(kb_dict_collection, K1)
    /\ DictHas(DictGet(kb_dict_collection, K1), <<"a">>)
    /\ ValueIn(DictGet(DictGet(kb_dict_collection, K1), <<"a">>), last.pre_heap) = <<IntE(1)>>
    /\ ValueIn(DictGet(DictGet(kb_dict_collection, K1), <<"a">>), heap) = <<IntE(1), IntE(2)>>

----------------------------------------------------------------------------
\* The constant names of two knowledge items (SpecNames)

\* names of knowledge bases and of items, with and without an underscore
UnderscoreKBNames == {<<"k">>, <<"k", "_", "a">>, <<"j">>}

UnderscoreItemNames == {<<"a">>, <<"a", "_", "a">>, <<"b">>}

\* two different items, each with a number as its value
ItemPairs ==
    {pr \in [kb1 : UnderscoreKBNames, k1 : UnderscoreItemNames, v1 : 1..MaxInt,
             kb2 : UnderscoreKBNames, k2 : UnderscoreItemNames, v2 : 1..MaxInt] :
        <<pr.kb1, pr.k1>> # <<pr.kb2, pr.k2>>}

\* the knowledge map of the program that declares the two items in order
MapOf(pr, Val(_)) ==
    IF pr.kb1 = pr.kb2
    THEN <<[k |-> pr.kb1, v |-> <<[k |-> pr.k1, v |-> Val(pr.v1)],
                                  [k |-> pr.k2, v |-> Val(pr.v2)]>>]>>
    ELSE <<[k |-> pr.kb1, v |-> <<[k |-> pr.k1, v |-> Val(pr.v1)]>>],
           [k |-> pr.kb2, v |-> <<[k |-> pr.k2, v |-> Val(pr.v2)]>>]>>

NamesInit ==
    /\ KBInit
    /\ RInit
    /\ fn_pc = "ready"
    /\ fn_in \in ItemPairs
    /\ fn_out = <<>>

\* the constant definitions emitted for the map, the constant table built
\* from it, and the references to the two items as the rule transformer
\* writes them
NameItems(same) ==
    /\ fn_pc = "ready"
    /\ (fn_in.kb1 = fn_in.kb2) = same
    /\ fn_pc' = "done"
    /\ fn_out' = [const_def |-> KBTranslate(MapOf(fn_in, IntV), <<>>),
                  knowledge_consts |-> _build_knowledge_consts(MapOf(fn_in, KInt)),
                  refs |-> <<rt_knowledge_ref(Tok("NAME", fn_in.kb1), Tok("NAME", fn_in.k1)),
                             rt_knowledge_ref(Tok("NAME", fn_in.kb2), Tok("NAME", fn_in.k2))>>]
    /\ UNCHANGED fn_in

NameItemsOfOneBase == NameItems(TRUE)

NameItemsOfTwoBases == NameItems(FALSE)

NextNames ==
    /\ \/ NameItemsOfOneBase
       \/ NameItemsOfTwoBases
    /\ UNCHANGED <<kbvars, rvars>>

SpecNames == NamesInit /\ [][NextNames]_vars

\* the name in a line `const V as NAME;` whose value V is one digit
ConstNameOf(line) == SubSeq(line, Len("const 1 as ") + 1, Len(line) - 1)

\* C29: two distinct pairs (knowledge base, item) are emitted as two
\* distinct constant names, are two keys of the constant table with their own
\* values, and are referred to by two distinct names.
C29_DistinctItemsDistinctNames ==
    fn_pc = "done" =>
        /\ ConstNameOf(fn_out.const_def[1]) # ConstNameOf(fn_out.const_def[2])
        /\ Cardinality(DictKeys(fn_out.knowledge_consts)) = 2
        /\ fn_out.knowledge_consts[1].v = KInt(fn_in.v1)
        /\ fn_out.knowledge_consts[2].v = KInt(fn_in.v2)
        /\ fn_out.refs[1] # fn_out.refs[2]

\* C29 failing run: k_a.a = 1 and k.a_a = 2 are both the constant k_a_a
C29_FailingRun ==
    /\ fn_pc = "done"
    /\ fn_in = [kb1 |-> <<"k", "_", "a">>, k1 |-> <<"a">>, v1 |-> 1,
                kb2 |-> <<"k">>, k2 |-> <<"a", "_", "a">>, v2 |-> 2]
    /\ fn_out.const_def[1] = "const 1 as k_a_a;"
    /\ fn_out.const_def[2] = "const 2 as k_a_a;"
    /\ fn_out.knowledge_consts = <<[k |-> <<"k", "_", "a", "_", "a">>, v |-> KInt(2)]>>
    /\ fn_out.refs[1] = VarRef(<<"k", "_", "a", "_", "a">>)
    /\ fn_out.refs[2] = fn_out.refs[1]

----------------------------------------------------------------------------
\* C24: the types of the operands of an equality

\* what the visit of the operand returns (type_inference.py 123-124)
OwnType(node) == Infer(node, <<>>, _build_knowledge_consts(SatKbDict)).ty

KnownTypes == {"int", "string"}

\* the type of the first operand, left before right, whose type is known,
\* int when both are unknown
FirstKnownType(left, right) ==
    IF OwnType(left) \in KnownTypes THEN OwnType(left)
    ELSE IF OwnType(right) \in KnownTypes THEN OwnType(right)
    ELSE "int"

\* the rule's check is an equality whose operands are of a known type or
\* of no type yet
CheckIsEquality ==
    /\ Transform(fn_in.cond).data = "equality_expr"
    /\ OwnType(Transform(fn_in.cond).children[1]) \in KnownTypes \cup {"unknown"}
    /\ OwnType(Transform(fn_in.cond).children[3]) \in KnownTypes \cup {"unknown"}

\* C24: for an equality node l == r type inference gives both operands the
\* same type, the type of the first operand (left before right) whose type
\* is known, and int when both are unknown; with l of type string and r of
\* type int both operands are typed string.
C24_EqualityFirstKnownType ==
    (fn_pc = "done" /\ CheckIsEquality) =>
        LET eq == Transform(fn_in.cond)
        IN  /\ TypedAs(eq.children[1], FirstKnownType(eq.children[1], eq.children[3]))
            /\ TypedAs(eq.children[3], FirstKnownType(eq.children[1], eq.children[3]))

\* C24 failing run: in `tx.from == 3` the left operand is a string, the
\* right one an int, and both are typed int
C24_FailingRun ==
    /\ fn_pc = "done"
    /\ fn_in.cond = Tree("compare_expr", <<TxBasic, Tok("OP", <<"=", "=">>),
                                           Tree("number", <<Tok("NUMBER", IntToStr(MaxInt))>>)>>)
    /\ OwnType(tx_basic(Tok("FROM", N_from))) = "string"
    /\ TypedAs(tx_basic(Tok("FROM", N_from)), "int")
    /\ TypedAs(Tree("number", <<Tok("NUMBER", IntToStr(MaxInt))>>), "int")

----------------------------------------------------------------------------
\* C23: the types of the nodes whose type does not depend on the context

\* tx.from, tx.to, tx.function, contract(addr).name and contract(addr).owner
IsBasicAttribute(node) ==
    /\ node.data = "getattr"
    /\ \/ /\ node.children[1] = Tree("var_ref", <<Tok("NAME", N_tx)>>)
          /\ Flat(node.children[2].value) \in {"from", "to", "function"}
       \/ /\ node.children[1].data = "getitem"
          /\ node.children[1].children[1] = Tree("var_ref", <<Tok("NAME", N_contract)>>)
          /\ Flat(node.children[2].value) \in {"name", "owner"}

\* the type the node has whatever it is an operand of, "" for other nodes
FixedType(node) ==
    IF node = OutputValue THEN "int"
    ELSE IF IsBasicAttribute(node) THEN "string"
    ELSE IF node.data = "number" THEN "int"
    ELSE IF node.data = "string" THEN "string"
    ELSE ""

\* MslTypeInference.transition_body has returned its type map
TypeMapReturned ==
    /\ fn_pc = "done"
    /\ LET stmt == Transform(Tree(fn_in.kind, <<fn_in.cond>>))
           block == rule_block(Tok("NAME", <<"r">>), Transform(fn_in.guard), <<stmt>>)
       IN  mti_transition_body(<<block>>, <<>>, _build_knowledge_consts(SatKbDict)).err = ""

\* C23: in the type map returned for a rule body every node output.value
\* has type int, every node tx.from, tx.to, tx.function, contract(addr).name
\* and contract(addr).owner has type string, every number literal has type
\* int and every string literal has type string, whatever operator the node
\* is an operand of.
C23_FixedTypesKept ==
    TypeMapReturned =>
        \A p \in 1..Len(fn_out.types) :
            FixedType(fn_out.types[p].k) # ""
                => fn_out.types[p].v = FixedType(fn_out.types[p].k)

\* C23 failing run: the type map returned for
\* `prohibit tx.from in knowledgebase(k1).a` gives tx.from the type int
C23_FailingRun ==
    /\ TypeMapReturned
    /\ fn_in.cond = Tree("membership", <<TxBasic, KRef(K1, <<"a">>)>>)
    /\ IsBasicAttribute(tx_basic(Tok("FROM", N_from)))
    /\ TypedAs(tx_basic(Tok("FROM", N_from)), "int")

----------------------------------------------------------------------------
\* Two rule bodies through one RuleSatChecker (SpecSatRuns)

RunOperands ==
    {VarRef(<<"x">>), Tree("number", <<Tok("NUMBER", IntToStr(MaxInt))>>), AddressExpr, TxBasic}

RunConds ==
    {Tree("compare_expr", <<l, Tok("OP", op), r>>) :
        l \in RunOperands, op \in {<<"=", "=">>, <<"<">>}, r \in RunOperands}

\* the rule bodies of `rule r { reg g : prohibit <cond>; }`
RunBodies ==
    {start(<<rule_block(Tok("NAME", <<"r">>), Transform(VarRef(<<"g">>)),
                        <<Transform(Tree("prohibit_stmt", <<c>>))>>)>>).tree :
        c \in {cond \in RunConds : Transform(cond).data # "VisitError"}}

\* rsc = RuleSatChecker(kb_dict): no run yet, rsc.mti.types is empty
SatRunsInit ==
    /\ KBInit
    /\ RInit
    /\ fn_pc = "ready"
    /\ fn_in \in [1..MaxRuns -> RunBodies]
    /\ fn_out = <<>>

\* rsc.mti.types after the runs so far
MtiTypes == IF fn_out = <<>> THEN <<>> ELSE fn_out[Len(fn_out)].types

\* rsc.visit(body) of the next body
RunBody ==
    /\ fn_pc \in {"ready", "running"}
    /\ fn_out' = Append(fn_out, rsc_transition_body(MtiTypes, SatKbDict, fn_in[Len(fn_out) + 1]))
    /\ fn_pc' = IF Len(fn_out') = MaxRuns THEN "done" ELSE "running"
    /\ UNCHANGED fn_in

FirstRun == fn_out = <<>> /\ RunBody

LaterRun == fn_out # <<>> /\ RunBody

NextSatRuns ==
    /\ \/ FirstRun
       \/ LaterRun
    /\ UNCHANGED <<kbvars, rvars>>

SpecSatRuns == SatRunsInit /\ [][NextSatRuns]_vars

\* the type the run gives the node, "" when it gives none
TypeIn(run, node) == IF DictHas(run.types, node) THEN DictGet(run.types, node) ELSE ""

\* the run of the long-lived checker has the types of the body's nodes,
\* the terms and the exception of the run of a fresh checker
SameAsFresh(run, body) ==
    LET fresh == sat_transition_body(SatKbDict, body)
    IN  /\ run.err = fresh.err
        /\ run.built = fresh.built
        /\ \A node \in Subtrees(body) : TypeIn(run, node) = TypeIn(fresh, node)

\* C25: for one long-lived RuleSatChecker the types, symbols and asserted
\* formulas used in a run are those a fresh checker with the same knowledge
\* map would use for the same rule body, after any sequence of earlier runs.
C25_RunsAreIndependent ==
    \A p \in 1..Len(fn_out) : SameAsFresh(fn_out[p], fn_in[p])

\* C25 failing run: after `prohibit x < 3` the run of `prohibit x == tx.from`
\* types x and tx.from int, where a fresh checker types both string
C25_FailingRun ==
    /\ Len(fn_out) = 2
    /\ TypeIn(fn_out[1], Transform(VarRef(<<"x">>))) = "int"
    /\ TypeIn(fn_out[2], tx_basic(Tok("FROM", N_from))) = "int"
    /\ TypeIn(sat_transition_body(SatKbDict, fn_in[2]), tx_basic(Tok("FROM", N_from))) = "string"
    /\ ~SameAsFresh(fn_out[2], fn_in[2])

----------------------------------------------------------------------------
\* A rule body of several rules through the satisfiability checker
\* (SpecSatBody)

BodyGuard == Tree("and_expr", <<VarRef(<<"g">>), VarRef(<<"h">>)>>)

\* x < 3 and tx.from == "A"
BodyConds ==
    {Tree("compare_expr", <<VarRef(<<"x">>), Tok("OP", <<"<">>),
                            Tree("number", <<Tok("NUMBER", IntToStr(MaxInt))>>)>>),
     Tree("compare_expr", <<TxBasic, Tok("OP", <<"=", "=">>), AddressExpr>>)}

\* require / prohibit of them, and prohibit tx.from < "A", whose terms the
\* solver refuses
BodyChecks ==
    {Tree(kind, <<c>>) : kind \in {"require_stmt", "prohibit_stmt"}, c \in BodyConds}
    \cup {Tree("prohibit_stmt",
               <<Tree("compare_expr", <<TxBasic, Tok("OP", <<"<">>), AddressExpr>>)>>)}

\* rule r { reg g and h : <up to MaxChecks checks> }
BodyRules ==
    {RuleBlockTree(BodyGuard, stmts) : stmts \in {<<>>} \cup SeqsUpTo(BodyChecks, MaxChecks)}

SatBodyInit ==
    /\ KBInit
    /\ RInit
    /\ fn_pc = "ready"
    /\ fn_in \in SeqsUpTo(BodyRules, MaxBlocks)
    /\ fn_out = <<>>

\* rtb.transform of the rules, then RuleSatChecker(kb_dict).visit(msl_ast)
CheckBody ==
    /\ fn_pc = "ready"
    /\ fn_pc' = "done"
    /\ fn_out' = sat_transition_body(
                     SatKbDict, start([p \in 1..Len(fn_in) |-> Transform(fn_in[p])]).tree)
    /\ UNCHANGED fn_in

CheckOneRule == Len(fn_in) = 1 /\ CheckBody

CheckSeveralRules == Len(fn_in) > 1 /\ CheckBody

NextSatBody ==
    /\ \/ CheckOneRule
       \/ CheckSeveralRules
    /\ UNCHANGED <<kbvars, rvars>>

SpecSatBody == SatBodyInit /\ [][NextSatBody]_vars

\* the conjuncts of a term, through nested conjunctions
RECURSIVE Conjuncts(_)
Conjuncts(formula) ==
    LET Sub[p \in 0..Len(formula.args)] ==
            IF p = 0 THEN <<>> ELSE Sub[p - 1] \o Conjuncts(formula.args[p])
    IN  IF formula.kind = "AND" THEN Sub[Len(formula.args)] ELSE <<formula>>

\* the scope and the checks of a rule of the input: each check in prohibit
\* form, `require c` being the check not c
ScopeOf(rule) == Transform(rule.children[2])

PredicatesOf(rule) ==
    [p \in 1..(Len(rule.children) - 2) |-> Transform(rule.children[p + 2])]

\* NOT c, and p for the check not p
NegationOf(c) ==
    IF c.data = "not_expr" THEN TermOf(c.children[1]) ELSE mkTerm("NOT", <<TermOf(c)>>)

\* the conjuncts of g AND (NOT c1) AND ... AND (NOT cN)
ExpectedConjuncts(rule) ==
    LET Sub[p \in 0..Len(PredicatesOf(rule))] ==
            IF p = 0 THEN Conjuncts(TermOf(ScopeOf(rule)))
            ELSE Sub[p - 1] \o Conjuncts(NegationOf(PredicatesOf(rule)[p]))
    IN  Sub[Len(PredicatesOf(rule))]

\* the rules of the input that have checks, in source order
RECURSIVE NonEmptyRules(_)
NonEmptyRules(rules) ==
    IF rules = <<>> THEN <<>>
    ELSE (IF Len(rules[1].children) > 2 THEN <<rules[1]>> ELSE <<>>)
             \o NonEmptyRules(Tail(rules))

----------------------------------------------------------------------------
\* C30: what the rules transition of the template computes

\* the condition holds when the conditions of true_nodes are the true ones
RECURSIVE Holds(_, _)
Holds(c, true_nodes) ==
    CASE c.data = "not_expr" -> ~Holds(c.children[1], true_nodes)
      [] c.data = "and_expr" -> \A p \in 1..Len(c.children) : Holds(c.children[p], true_nodes)
      [] c.data = "or_expr" -> \E p \in 1..Len(c.children) : Holds(c.children[p], true_nodes)
      [] OTHER -> c \in true_nodes

\* the value of the right-hand side of an assign_stmt when output.value is
\* output_value
RECURSIVE ValueOf(_, _, _)
ValueOf(e, true_nodes, output_value) ==
    CASE e.data = "conditional_expr" ->
            IF Holds(e.children[1], true_nodes)
            THEN ValueOf(e.children[2], true_nodes, output_value)
            ELSE ValueOf(e.children[3], true_nodes, output_value)
      [] e.data = "number" -> ParseDec(e.children[1].value)
      [] OTHER -> output_value

\* output.value after the statements, one after the other
RECURSIVE Execute(_, _, _)
Execute(stmts, true_nodes, output_value) ==
    IF stmts = <<>> THEN output_value
    ELSE Execute(Tail(stmts), true_nodes,
                 IF stmts[1].data = "assign_stmt"
                 THEN ValueOf(stmts[1].children[3], true_nodes, output_value)
                 ELSE output_value)

\* the transition `checking -> { output.value = 0; {rules} pass =
\* (output.value == 0); ... }` of the template has ended with output.value
\* equal to output_value
Checked(output_value) == [output_value |-> output_value, pass |-> output_value = 0]

\* that transition with the statements of msl_ast
rules_transition(true_nodes) == Checked(Execute(msl_ast.children, true_nodes, 0))

\* the conditions under the negations of c
RECURSIVE PlainConditions(_)
PlainConditions(c) ==
    IF c.data \in {"not_expr", "and_expr", "or_expr"}
    THEN UNION {PlainConditions(c.children[p]) : p \in 1..Len(c.children)}
    ELSE {c}

\* the scope of the j-th rule and its i-th check in prohibit form
ScopeCond(j) == Transform(rl_rules[j].children[2])

ProhibitForm(j, i) == CheckCond(rl_rules[j].children[i + 2])

\* the scopes and check conditions of the program
ProgramConditions ==
    UNION {PlainConditions(ScopeCond(j))
               \cup UNION {PlainConditions(ProhibitForm(j, i)) : i \in 1..RuleChecks(j)} :
           j \in 1..Len(rl_rules)}

\* the scope of the j-th rule is true and one of its checks holds
Triggered(j, true_nodes) ==
    /\ Holds(ScopeCond(j), true_nodes)
    /\ \E i \in 1..RuleChecks(j) : Holds(ProhibitForm(j, i), true_nodes)

\* the first check of the j-th rule that holds
FirstHolding(j, true_nodes) ==
    CHOOSE i \in 1..RuleChecks(j) :
        /\ Holds(ProhibitForm(j, i), true_nodes)
        /\ \A h \in 1..(i - 1) : ~Holds(ProhibitForm(j, h), true_nodes)

\* the last rule that is triggered
LastTriggered(true_nodes) ==
    CHOOSE j \in 1..Len(rl_rules) :
        /\ Triggered(j, true_nodes)
        /\ \A h \in (j + 1)..Len(rl_rules) : ~Triggered(h, true_nodes)

\* the code start has given the i-th check of the j-th rule, -1 for none
CodeOf(j, i) ==
    IF i <= Len(ChecksOf(j)) /\ ChecksOf(j)[i].children[2].data = "number"
    THEN ParseDec(ChecksOf(j)[i].children[2].children[1].value)
    ELSE -1

\* the first check that holds of the j-th rule has the code output_value
IsCodeOfFirstHolding(j, true_nodes, output_value) ==
    output_value = CodeOf(j, FirstHolding(j, true_nodes))

\* the transition has ended with the result r as the claim says
Decided(true_nodes, r) ==
    /\ r.pass <=> \A j \in 1..Len(rl_rules) : ~Triggered(j, true_nodes)
    /\ ~r.pass => IsCodeOfFirstHolding(LastTriggered(true_nodes), true_nodes, r.output_value)

\* C30: executing the rules transition (output.value = 0, the assignment of
\* every rule in source order, pass = (output.value == 0)) for any truth
\* values of the scopes and checks: pass is true if and only if for every
\* rule the scope is false or none of its checks holds; otherwise
\* output.value is the code of the first check that holds of the last rule
\* that has its scope true and a check that holds.
C30_TransitionDecides ==
    msl_ast # NoTree =>
        \A true_nodes \in SUBSET ProgramConditions :
            Decided(true_nodes, rules_transition(true_nodes))

\* C30 witness: two rules of two checks each, both triggered, the second
\* rule by its second check only: output.value is the code of that check
C30_Witness ==
    /\ msl_ast # NoTree
    /\ Len(rl_rules) = 2
    /\ RuleChecks(1) = 2
    /\ RuleChecks(2) = 2
    /\ \E true_nodes \in SUBSET ProgramConditions :
           /\ Triggered(1, true_nodes)
           /\ Triggered(2, true_nodes)
           /\ FirstHolding(2, true_nodes) = 2
           /\ ~rules_transition(true_nodes).pass
           /\ rules_transition(true_nodes).output_value = CodeOf(2, 2)
           /\ CodeOf(2, 2) # CodeOf(1, FirstHolding(1, true_nodes))

====
